---------------------------- MODULE Spec2Model ----------------------------
(***************************************************************************)
(* PolicyLens agent: the response normalizer and the failure               *)
(* classification of PolicyImpactAgent.analyze (src/backend/agent.py).     *)
(*                                                                         *)
(* Python strings are sequences of one-character strings, so that strip,   *)
(* lower, title, split and the regular expressions are computed character  *)
(* by character.  A JSON value is a pair << type, payload >> of its Python *)
(* type and its content: "str", "num", "null", "bool", "list", "dict" (a   *)
(* dict used where it is only iterated or measured: the payload is the     *)
(* sequence of its keys), "group" (a dict read through the keys group,     *)
(* risk_level and regions) and "obj" (the top-level dict read through the  *)
(* keys of the result schema).  A key that a dict does not hold has the    *)
(* value Absent.                                                           *)
(***************************************************************************)
EXTENDS Integers, Sequences, FiniteSets, TLC

(***************************************************************************)
(* Characters and the str methods the normalizer uses.                     *)
(***************************************************************************)
Lowers ==
    << "a", "b", "c", "d", "e", "f", "g", "h", "i", "j", "k", "l", "m",
       "n", "o", "p", "q", "r", "s", "t", "u", "v", "w", "x", "y", "z" >>

Uppers ==
    << "A", "B", "C", "D", "E", "F", "G", "H", "I", "J", "K", "L", "M",
       "N", "O", "P", "Q", "R", "S", "T", "U", "V", "W", "X", "Y", "Z" >>

IndexIn(c, seq) ==
    IF \E i \in 1..Len(seq) : seq[i] = c
    THEN CHOOSE i \in 1..Len(seq) : seq[i] = c
    ELSE 0

IsCased(c) == IndexIn(c, Lowers) > 0 \/ IndexIn(c, Uppers) > 0

ToLower(c) == IF IndexIn(c, Uppers) > 0 THEN Lowers[IndexIn(c, Uppers)] ELSE c

ToUpper(c) == IF IndexIn(c, Lowers) > 0 THEN Uppers[IndexIn(c, Lowers)] ELSE c

\* the characters \s, str.strip() and str.split() treat as whitespace
IsSpace(c) == c \in {" ", "\n", "\t"}

SetMin(S) == CHOOSE x \in S : \A y \in S : x <= y

SetMax(S) == CHOOSE x \in S : \A y \in S : x >= y

PyLower_Mutant(s) == s

\* str.lower()
PyLower(s) == [i \in 1..Len(s) |-> ToLower(s[i])]

\* str.strip()
PyStrip(s) ==
    LET idx == {i \in 1..Len(s) : ~IsSpace(s[i])}
    IN  IF idx = {} THEN << >> ELSE SubSeq(s, SetMin(idx), SetMax(idx))

\* str.title(): a cased character is upper-cased unless the character before
\* it is cased, in which case it is lower-cased
PyTitle(s) ==
    [i \in 1..Len(s) |->
        IF IsCased(s[i])
        THEN IF i > 1 /\ IsCased(s[i - 1]) THEN ToLower(s[i]) ELSE ToUpper(s[i])
        ELSE s[i]]

EndsWithDot_Mutant(s) == TRUE

\* str.endswith('.')
EndsWithDot(s) == Len(s) > 0 /\ s[Len(s)] = "."

RECURSIVE Ascending(_, _, _)
\* the members of a set of indices between lo and hi, in ascending order
Ascending(S, lo, hi) ==
    IF lo > hi THEN << >>
    ELSE IF lo = hi THEN (IF lo \in S THEN << lo >> ELSE << >>)
    ELSE LET mid == (lo + hi) \div 2
         IN  Ascending(S, lo, mid) \o Ascending(S, mid + 1, hi)

ReSubSpace_Mutant(s) == s

\* re.sub(r'\s+', ' ', s): a blank for the first character of a run of
\* whitespace, nothing for the rest of the run
ReSubSpace(s) ==
    LET kept == Ascending({i \in 1..Len(s) :
                              ~(IsSpace(s[i]) /\ i > 1 /\ IsSpace(s[i - 1]))},
                          1, Len(s))
    IN  [k \in 1..Len(kept) |-> IF IsSpace(s[kept[k]]) THEN " " ELSE s[kept[k]]]

\* re.sub(r'\n+', ' ', s)
ReSubNewline(s) ==
    LET kept == Ascending({i \in 1..Len(s) :
                              ~(s[i] = "\n" /\ i > 1 /\ s[i - 1] = "\n")},
                          1, Len(s))
    IN  [k \in 1..Len(kept) |-> IF s[kept[k]] = "\n" THEN " " ELSE s[kept[k]]]

\* str.split(): the maximal runs of non-whitespace characters
PySplit(s) ==
    LET first == Ascending({i \in 1..Len(s) :
                              ~IsSpace(s[i]) /\ (i = 1 \/ IsSpace(s[i - 1]))},
                           1, Len(s))
        last  == Ascending({i \in 1..Len(s) :
                              ~IsSpace(s[i]) /\ (i = Len(s) \/ IsSpace(s[i + 1]))},
                           1, Len(s))
    IN  [k \in 1..Len(first) |-> SubSeq(s, first[k], last[k])]

RECURSIVE JoinRange(_, _, _)
JoinRange(words, lo, hi) ==
    IF lo > hi THEN << >>
    ELSE IF lo = hi THEN words[lo]
    ELSE LET mid == (lo + hi) \div 2
         IN  JoinRange(words, lo, mid) \o << " " >> \o JoinRange(words, mid + 1, hi)

\* ' '.join(words)
PyJoin(words) == JoinRange(words, 1, Len(words))

\* needle in haystack, for two strings
Contains(hay, needle) ==
    \E i \in 1..(Len(hay) - Len(needle) + 1) :
        SubSeq(hay, i, i + Len(needle) - 1) = needle

(***************************************************************************)
(* String literals of the source.                                          *)
(***************************************************************************)
K_affected_groups ==
    << "a", "f", "f", "e", "c", "t", "e", "d", "_", "g", "r", "o", "u", "p", "s" >>

K_risk_level == << "r", "i", "s", "k", "_", "l", "e", "v", "e", "l" >>

S_Low == << "L", "o", "w" >>

S_Medium == << "M", "e", "d", "i", "u", "m" >>

S_High == << "H", "i", "g", "h" >>

S_Unknown == << "U", "n", "k", "n", "o", "w", "n" >>

S_AnalysisCompleted ==
    << "A", "n", "a", "l", "y", "s", "i", "s", " ",
       "c", "o", "m", "p", "l", "e", "t", "e", "d", "." >>

S_Mumbai == << "M", "u", "m", "b", "a", "i" >>

\* config.py
RISK_LEVELS == << S_Low, S_Medium, S_High >>

MAX_AFFECTED_GROUPS == 3

MAX_MITIGATIONS == 5

REASONING_SUMMARY_MAX_WORDS == 35

\* deterministic_rules["region_mapping"]["cities_to_states"], as the sequence
\* of its items
region_mapping ==
    << << S_Mumbai, << "M", "a", "h", "a", "r", "a", "s", "h", "t", "r", "a" >> >>,
       << << "D", "e", "l", "h", "i" >>, << "D", "e", "l", "h", "i" >> >>,
       << << "B", "a", "n", "g", "a", "l", "o", "r", "e" >>,
          << "K", "a", "r", "n", "a", "t", "a", "k", "a" >> >>,
       << << "C", "h", "e", "n", "n", "a", "i" >>,
          << "T", "a", "m", "i", "l", " ", "N", "a", "d", "u" >> >>,
       << << "K", "o", "l", "k", "a", "t", "a" >>,
          << "W", "e", "s", "t", " ", "B", "e", "n", "g", "a", "l" >> >>,
       << << "H", "y", "d", "e", "r", "a", "b", "a", "d" >>,
          << "T", "e", "l", "a", "n", "g", "a", "n", "a" >> >>,
       << << "P", "u", "n", "e" >>,
          << "M", "a", "h", "a", "r", "a", "s", "h", "t", "r", "a" >> >>,
       << << "A", "h", "m", "e", "d", "a", "b", "a", "d" >>,
          << "G", "u", "j", "a", "r", "a", "t" >> >> >>

\* the keys of the table
Cities == {region_mapping[i][1] : i \in 1..Len(region_mapping)}

\* city_to_state[city]
cities_to_states(city) ==
    region_mapping[CHOOSE i \in 1..Len(region_mapping) : region_mapping[i][1] = city][2]

(***************************************************************************)
(* JSON values as json.loads builds them, and Python's view of them.       *)
(***************************************************************************)
Str(s) == << "str", s >>

Num(n) == << "num", n >>

Null == << "null", 0 >>

Absent == << "absent", 0 >>

List(q) == << "list", q >>

Dict(keys) == << "dict", keys >>

Group(name, risk, regions) ==
    << "group", [group |-> name, risk_level |-> risk, regions |-> regions] >>

Obj(groups, mitigations, summary) ==
    << "obj",
       [affected_groups |-> groups, mitigations |-> mitigations,
        reasoning_summary |-> summary,
        is_error |-> Absent, error_type |-> Absent] >>

\* the outcome of a call: a value, or the exception it raised
Ok(val) == [ok |-> TRUE, val |-> val, exc |-> "none"]

Raise(exc) == [ok |-> FALSE, val |-> Null, exc |-> exc]

\* bool(x)
Truthy(x) ==
    CASE x[1] = "str"   -> x[2] # << >>
      [] x[1] = "num"   -> x[2] # 0
      [] x[1] = "null"  -> FALSE
      [] x[1] = "list"  -> x[2] # << >>
      [] x[1] = "dict"  -> x[2] # << >>
      [] x[1] = "group" -> \E k \in DOMAIN x[2] : x[2][k][1] # "absent"
      [] x[1] = "obj"   -> \E k \in DOMAIN x[2] : x[2][k][1] # "absent"

Digits == << "0", "1", "2", "3", "4", "5", "6", "7", "8", "9" >>

RECURSIVE NumStr(_)
NumStr(n) ==
    IF n < 10 THEN << Digits[n + 1] >>
    ELSE NumStr(n \div 10) \o << Digits[(n % 10) + 1] >>

\* str(x) for the scalars a region list may hold
PyStr(x) ==
    LET S_None == << "N", "o", "n", "e" >>
    IN
    CASE x[1] = "str"  -> x[2]
      [] x[1] = "num"  -> NumStr(x[2])
      [] x[1] = "null" -> S_None

\* the values a for loop over x visits: the elements of a list, the
\* characters of a string, the keys of a dict
Items(x) ==
    CASE x[1] = "list" -> x[2]
      [] x[1] = "str"  -> [i \in 1..Len(x[2]) |-> Str(<< x[2][i] >>)]
      [] x[1] = "dict" -> [i \in 1..Len(x[2]) |-> Str(x[2][i])]

\* x can be iterated and measured with len()
Sized(x) == x[1] \in {"list", "str", "dict"}

\* a loop whose body raised stops at the first element that raised
FirstRaised(rs) ==
    rs[SetMin({i \in 1..Len(rs) : ~rs[i].ok})]

Collect(rs) ==
    IF \E i \in 1..Len(rs) : ~rs[i].ok
    THEN FirstRaised(rs)
    ELSE Ok([i \in 1..Len(rs) |-> rs[i].val])

(***************************************************************************)
(* _apply_deterministic_rules                                              *)
(***************************************************************************)
NormalizeRisk_Mutant(risk_level) == PyStrip(risk_level)

\* the risk string written back for a group's risk_level string
NormalizeRisk(risk_level) ==
    LET risk       == PyStrip(risk_level)
        risk_lower == PyLower(risk)
    IN  IF risk_lower \in {<< "l", "o", "w" >>, << "l" >>} THEN S_Low
        ELSE IF risk_lower \in {<< "m", "e", "d", "i", "u", "m" >>,
                                << "m", "e", "d" >>, << "m" >>} THEN S_Medium
        ELSE IF risk_lower \in {<< "h", "i", "g", "h" >>, << "h" >>} THEN S_High
        ELSE S_Medium

\* one pass of the loop body over an element of affected_groups
RulesGroup(group) ==
    CASE group[1] = "group" ->
            IF group[2].risk_level[1] = "absent" THEN Ok(group)
            ELSE IF group[2].risk_level[1] # "str" THEN Raise("AttributeError")
            ELSE Ok([group EXCEPT
                        ![2].risk_level = Str(NormalizeRisk(group[2].risk_level[2]))])
      [] group[1] = "str" ->
            \* substring test, then indexing a str with a str
            IF Contains(group[2], K_risk_level) THEN Raise("TypeError") ELSE Ok(group)
      [] group[1] = "list" ->
            \* membership test, then indexing a list with a str
            IF \E i \in 1..Len(group[2]) : group[2][i] = Str(K_risk_level)
            THEN Raise("TypeError") ELSE Ok(group)
      [] group[1] = "dict" -> Ok(group)
      [] group[1] \in {"num", "null"} -> Raise("TypeError")

ApplyDeterministicRules(result) ==
    CASE result[1] = "obj" ->
            LET groups == result[2].affected_groups
            IN  IF groups[1] = "absent" THEN Ok(result)
                ELSE IF ~Sized(groups) THEN Raise("TypeError")
                ELSE LET its  == Items(groups)
                         done == Collect([i \in 1..Len(its) |-> RulesGroup(its[i])])
                     IN  IF ~done.ok THEN done
                         ELSE IF groups[1] = "list"
                         THEN Ok([result EXCEPT ![2].affected_groups = List(done.val)])
                         ELSE Ok(result)
      [] result[1] = "list" ->
            IF \E i \in 1..Len(result[2]) : result[2][i] = Str(K_affected_groups)
            THEN Raise("TypeError") ELSE Ok(result)
      [] result[1] = "str" ->
            IF Contains(result[2], K_affected_groups)
            THEN Raise("TypeError") ELSE Ok(result)
      [] result[1] \in {"num", "null"} -> Raise("TypeError")

(***************************************************************************)
(* _apply_anchoring_logic                                                  *)
(***************************************************************************)
Limit_Mutant(x, max) ==
    IF Len(x[2]) <= max THEN Ok(x)
    ELSE IF x[1] = "dict" THEN Raise("TypeError")
    ELSE Ok([x EXCEPT ![2] = SubSeq(x[2], Len(x[2]) - max + 1, Len(x[2]))])

\* result["affected_groups"][:MAX_AFFECTED_GROUPS] and
\* result["mitigations"][:MAX_MITIGATIONS]
Limit(x, max) ==
    IF Len(x[2]) <= max THEN Ok(x)
    ELSE IF x[1] = "dict" THEN Raise("TypeError")
    ELSE Ok([x EXCEPT ![2] = SubSeq(x[2], 1, max)])

\* "Ensure each group has required fields"
AnchorGroup(group) ==
    LET S_UnspecifiedGroup ==
            << "U", "n", "s", "p", "e", "c", "i", "f", "i", "e", "d", " ",
               "g", "r", "o", "u", "p" >>
    IN
    IF group[1] \notin {"group", "dict"} THEN Raise("TypeError")
    ELSE LET g  == IF group[1] = "dict" THEN Group(Absent, Absent, Absent)[2]
                   ELSE group[2]
             nm == IF g.group[1] = "absent" \/ ~Truthy(g.group)
                   THEN Str(S_UnspecifiedGroup) ELSE g.group
             rk == IF g.risk_level[1] = "absent" THEN Str(S_Medium)
                   ELSE g.risk_level
             r0 == IF g.regions[1] = "absent" THEN List(<< >>) ELSE g.regions
             rg == IF r0[1] = "list" THEN r0
                   ELSE IF Truthy(r0) THEN List(<< r0 >>) ELSE List(<< >>)
         IN  Ok(Group(nm, rk, rg))

\* "Normalize reasoning summary", for a summary that is a string
NormalizeSummary(reasoning_summary) ==
    LET s0    == PyStrip(reasoning_summary)
        s1    == ReSubSpace(s0)
        s2    == ReSubNewline(s1)
        words == PySplit(s2)
    IN  IF Len(words) > REASONING_SUMMARY_MAX_WORDS
        THEN LET cut == PyJoin(SubSeq(words, 1, REASONING_SUMMARY_MAX_WORDS))
             IN  IF EndsWithDot(cut) THEN cut ELSE Append(cut, ".")
        ELSE s2

AnchorGroups(result) ==
    LET g0 == IF result[2].affected_groups[1] = "absent" THEN List(<< >>)
              ELSE result[2].affected_groups
    IN  IF ~Sized(g0) THEN Raise("TypeError")
        ELSE LET cut == Limit(g0, MAX_AFFECTED_GROUPS)
             IN  IF ~cut.ok THEN cut
                 ELSE LET its  == Items(cut.val)
                          done == Collect([i \in 1..Len(its) |-> AnchorGroup(its[i])])
                      IN  IF ~done.ok THEN done
                          ELSE IF cut.val[1] = "list" THEN Ok(List(done.val))
                          ELSE Ok(cut.val)

AnchorMitigations(result) ==
    LET m0 == IF result[2].mitigations[1] = "absent" THEN List(<< >>)
              ELSE result[2].mitigations
    IN  IF ~Sized(m0) THEN Raise("TypeError")
        ELSE Limit(m0, MAX_MITIGATIONS)

AnchorSummary(result) ==
    LET s == result[2].reasoning_summary
    IN  IF s[1] = "absent" THEN Ok(Str(S_AnalysisCompleted))
        ELSE IF s[1] # "str" THEN Raise("AttributeError")
        ELSE Ok(Str(NormalizeSummary(s[2])))

ApplyAnchoringLogic(result) ==
    IF result[1] # "obj" THEN Raise("TypeError")
    ELSE LET g == AnchorGroups(result)
             m == AnchorMitigations(result)
             s == AnchorSummary(result)
         IN  IF ~g.ok THEN g
             ELSE IF ~m.ok THEN m
             ELSE IF ~s.ok THEN s
             ELSE Ok([result EXCEPT ![2].affected_groups = g.val,
                                    ![2].mitigations = m.val,
                                    ![2].reasoning_summary = s.val])

(***************************************************************************)
(* _normalize_regions                                                      *)
(***************************************************************************)
\* the name appended to normalized_regions for one element of group["regions"]
NormalizeRegion(region) ==
    LET region_str == PyStrip(PyStr(region))
    IN  IF region_str \in Cities THEN cities_to_states(region_str)
        ELSE PyTitle(region_str)

RemoveDuplicates_Mutant(regions, seen) == regions

RECURSIVE RemoveDuplicates(_, _)
\* [r for r in normalized_regions if r not in seen and not seen.add(r)]
RemoveDuplicates(regions, seen) ==
    IF regions = << >> THEN << >>
    ELSE IF Head(regions) \in seen
         THEN RemoveDuplicates(Tail(regions), seen)
         ELSE << Head(regions) >>
                \o RemoveDuplicates(Tail(regions), seen \cup {Head(regions)})

RegionsGroup(group) ==
    LET K_regions == << "r", "e", "g", "i", "o", "n", "s" >>
    IN
    CASE group[1] = "group" ->
            IF group[2].regions[1] = "list"
            THEN LET rs == group[2].regions[2]
                     normalized_regions ==
                         [i \in 1..Len(rs) |-> Str(NormalizeRegion(rs[i]))]
                 IN  Ok([group EXCEPT ![2].regions =
                            List(RemoveDuplicates(normalized_regions, {}))])
            ELSE Ok(group)
      [] group[1] = "str" ->
            IF Contains(group[2], K_regions) THEN Raise("TypeError") ELSE Ok(group)
      [] group[1] = "list" ->
            IF \E i \in 1..Len(group[2]) : group[2][i] = Str(K_regions)
            THEN Raise("TypeError") ELSE Ok(group)
      [] group[1] = "dict" -> Ok(group)
      [] group[1] \in {"num", "null"} -> Raise("TypeError")

NormalizeRegions(result) ==
    IF result[1] # "obj" THEN Raise("TypeError")
    ELSE LET groups == result[2].affected_groups
         IN  IF groups[1] = "absent" THEN Ok(result)
             ELSE IF ~Sized(groups) THEN Raise("TypeError")
             ELSE LET its  == Items(groups)
                      done == Collect([i \in 1..Len(its) |-> RegionsGroup(its[i])])
                  IN  IF ~done.ok THEN done
                      ELSE IF groups[1] = "list"
                      THEN Ok([result EXCEPT ![2].affected_groups = List(done.val)])
                      ELSE Ok(result)

(***************************************************************************)
(* _post_process_normalize                                                 *)
(***************************************************************************)
\* "Final validation" and "Ensure all required top-level keys exist"
FinalValidation(result) ==
    IF result[1] # "obj" THEN Raise("ValueError")
    ELSE Ok([result EXCEPT
                ![2].affected_groups =
                    IF @[1] = "absent" THEN List(<< >>) ELSE @,
                ![2].mitigations =
                    IF @[1] = "absent" THEN List(<< >>) ELSE @,
                ![2].reasoning_summary =
                    IF @[1] = "absent" THEN Str(S_AnalysisCompleted) ELSE @])

PostProcessNormalize(result) ==
    LET r1 == ApplyDeterministicRules(result)
        r2 == IF r1.ok THEN ApplyAnchoringLogic(r1.val) ELSE r1
        r3 == IF r2.ok THEN NormalizeRegions(r2.val) ELSE r2
    IN  IF r3.ok THEN FinalValidation(r3.val) ELSE r3

(***************************************************************************)
(* Exceptions: the class name and the message; str(e) and repr(e).         *)
(***************************************************************************)
S_ValueError == << "V", "a", "l", "u", "e", "E", "r", "r", "o", "r" >>

S_JSONDecodeError ==
    << "J", "S", "O", "N", "D", "e", "c", "o", "d", "e", "E", "r", "r",
       "o", "r" >>

Exc(type, msg) == [type |-> type, msg |-> msg]

NoExc == Exc(<< >>, << >>)

ErrStr(e) == e.msg

ErrRepr(e) ==
    LET S_ReprOpen == << "(", "'" >>
        S_ReprClose == << "'", ")" >>
    IN  e.type \o S_ReprOpen \o e.msg \o S_ReprClose

\* the exception a failed step leaves in flight
NormalizerExc(name) ==
    LET S_OverflowError ==
            << "O", "v", "e", "r", "f", "l", "o", "w", "E", "r", "r", "o",
               "r" >>
        S_OverflowErrorMsg ==
            << "c", "a", "n", "n", "o", "t", " ", "c", "o", "n", "v", "e",
               "r", "t", " ", "f", "l", "o", "a", "t", " ", "i", "n", "f",
               "i", "n", "i", "t", "y", " ", "t", "o", " ", "i", "n", "t",
               "e", "g", "e", "r" >>
        S_TypeError == << "T", "y", "p", "e", "E", "r", "r", "o", "r" >>
        S_AttributeError ==
            << "A", "t", "t", "r", "i", "b", "u", "t", "e", "E", "r", "r",
               "o", "r" >>
        S_TypeErrorMsg ==
            << "s", "t", "r", "i", "n", "g", " ", "i", "n", "d", "i", "c",
               "e", "s", " ", "m", "u", "s", "t", " ", "b", "e", " ", "i",
               "n", "t", "e", "g", "e", "r", "s" >>
        S_AttributeErrorMsg ==
            << "o", "b", "j", "e", "c", "t", " ", "h", "a", "s", " ", "n",
               "o", " ", "a", "t", "t", "r", "i", "b", "u", "t", "e", " ",
               "'", "s", "t", "r", "i", "p", "'" >>
        S_ValueErrorMsg ==
            << "R", "e", "s", "u", "l", "t", " ", "m", "u", "s", "t", " ",
               "b", "e", " ", "a", " ", "d", "i", "c", "t", "i", "o", "n",
               "a", "r", "y" >>
    IN
    CASE name = "TypeError"      -> Exc(S_TypeError, S_TypeErrorMsg)
      [] name = "AttributeError" -> Exc(S_AttributeError, S_AttributeErrorMsg)
      [] name = "ValueError"     -> Exc(S_ValueError, S_ValueErrorMsg)
      [] name = "OverflowError"  -> Exc(S_OverflowError, S_OverflowErrorMsg)

\* str(e) of the json.JSONDecodeError raised at character offset pos
DecodeErrorMsg(pos) ==
    LET S_ExpectingValue ==
            << "E", "x", "p", "e", "c", "t", "i", "n", "g", " ", "v", "a",
               "l", "u", "e", ":", " ", "l", "i", "n", "e", " ", "1", " ",
               "c", "o", "l", "u", "m", "n", " " >>
        S_CharOpen == << " ", "(", "c", "h", "a", "r", " " >>
        S_CharClose == << ")" >>
    IN
    S_ExpectingValue \o NumStr(pos + 1) \o S_CharOpen \o NumStr(pos) \o S_CharClose

(***************************************************************************)
(* The results analyze() synthesizes.                                      *)
(***************************************************************************)
S_retry_in == << "r", "e", "t", "r", "y", " ", "i", "n", " " >>

Bool(b) == << "bool", b >>

Degraded(group, mitigations, summary, is_error, error_type) ==
    << "obj",
       [affected_groups |->
            List(<< Group(Str(group), Str(S_Unknown), List(<< >>)) >>),
        mitigations |-> List([i \in 1..Len(mitigations) |-> Str(mitigations[i])]),
        reasoning_summary |-> Str(summary),
        is_error |-> is_error, error_type |-> error_type] >>

QuotaResult(retry_delay) ==
    LET S_ApiQuotaExceeded ==
            << "A", "P", "I", " ", "Q", "u", "o", "t", "a", " ", "E", "x",
               "c", "e", "e", "d", "e", "d" >>
        S_QuotaMitigation1 ==
            << "A", "P", "I", " ", "q", "u", "o", "t", "a", " ", "l", "i",
               "m", "i", "t", " ", "r", "e", "a", "c", "h", "e", "d", ".",
               " ", "P", "l", "e", "a", "s", "e", " ", "w", "a", "i", "t",
               " ", "b", "e", "f", "o", "r", "e", " ", "r", "e", "t", "r",
               "y", "i", "n", "g", "." >>
        S_RetryAfter ==
            << "R", "e", "t", "r", "y", " ", "a", "f", "t", "e", "r", " " >>
        S_Seconds == << " ", "s", "e", "c", "o", "n", "d", "s", "." >>
        S_QuotaMitigation3 ==
            << "C", "h", "e", "c", "k", " ", "y", "o", "u", "r", " ", "G",
               "e", "m", "i", "n", "i", " ", "A", "P", "I", " ", "q", "u",
               "o", "t", "a", " ", "a", "n", "d", " ", "b", "i", "l", "l",
               "i", "n", "g", " ", "d", "e", "t", "a", "i", "l", "s", " ",
               "a", "t", " ", "h", "t", "t", "p", "s", ":", "/", "/", "a",
               "i", ".", "d", "e", "v", "/", "u", "s", "a", "g", "e" >>
        S_QuotaMitigation4 ==
            << "C", "o", "n", "s", "i", "d", "e", "r", " ", "u", "p", "g",
               "r", "a", "d", "i", "n", "g", " ", "y", "o", "u", "r", " ",
               "A", "P", "I", " ", "p", "l", "a", "n", " ", "f", "o", "r",
               " ", "h", "i", "g", "h", "e", "r", " ", "l", "i", "m", "i",
               "t", "s" >>
        S_QuotaSummaryHead ==
            << "A", "P", "I", " ", "q", "u", "o", "t", "a", " ", "e", "x",
               "c", "e", "e", "d", "e", "d", ".", " ", "F", "r", "e", "e",
               " ", "t", "i", "e", "r", " ", "l", "i", "m", "i", "t", " ",
               "o", "f", " ", "2", "0", " ", "r", "e", "q", "u", "e", "s",
               "t", "s", "/", "d", "a", "y", " ", "r", "e", "a", "c", "h",
               "e", "d", ".", " ", "P", "l", "e", "a", "s", "e", " ", "r",
               "e", "t", "r", "y", " ", "a", "f", "t", "e", "r", " " >>
        S_QuotaSummaryTail ==
            << " ", "s", "e", "c", "o", "n", "d", "s", " ", "o", "r", " ",
               "u", "p", "g", "r", "a", "d", "e", " ", "y", "o", "u", "r",
               " ", "A", "P", "I", " ", "p", "l", "a", "n", "." >>
        S_quota_exceeded ==
            << "q", "u", "o", "t", "a", "_", "e", "x", "c", "e", "e", "d",
               "e", "d" >>
    IN
    Degraded(S_ApiQuotaExceeded,
             << S_QuotaMitigation1,
                S_RetryAfter \o NumStr(retry_delay) \o S_Seconds,
                S_QuotaMitigation3, S_QuotaMitigation4 >>,
             S_QuotaSummaryHead \o NumStr(retry_delay) \o S_QuotaSummaryTail,
             Bool(TRUE), Str(S_quota_exceeded))

AuthResult ==
    LET S_ApiAuthenticationError ==
            << "A", "P", "I", " ", "A", "u", "t", "h", "e", "n", "t", "i",
               "c", "a", "t", "i", "o", "n", " ", "E", "r", "r", "o", "r" >>
        S_AuthMitigation1 ==
            << "I", "n", "v", "a", "l", "i", "d", " ", "o", "r", " ", "e",
               "x", "p", "i", "r", "e", "d", " ", "A", "P", "I", " ", "k",
               "e", "y", "." >>
        S_AuthMitigation2 ==
            << "P", "l", "e", "a", "s", "e", " ", "c", "h", "e", "c", "k",
               " ", "y", "o", "u", "r", " ", "G", "e", "m", "i", "n", "i",
               " ", "A", "P", "I", " ", "k", "e", "y", " ", "c", "o", "n",
               "f", "i", "g", "u", "r", "a", "t", "i", "o", "n", "." >>
        S_AuthMitigation3 ==
            << "U", "p", "d", "a", "t", "e", " ", "t", "h", "e", " ", "A",
               "P", "I", " ", "k", "e", "y", " ", "i", "n", " ", "e", "n",
               "v", "i", "r", "o", "n", "m", "e", "n", "t", " ", "v", "a",
               "r", "i", "a", "b", "l", "e", "s", " ", "o", "r", " ", "c",
               "o", "n", "f", "i", "g", "." >>
        S_AuthSummary ==
            << "A", "P", "I", " ", "a", "u", "t", "h", "e", "n", "t", "i",
               "c", "a", "t", "i", "o", "n", " ", "f", "a", "i", "l", "e",
               "d", ".", " ", "P", "l", "e", "a", "s", "e", " ", "v", "e",
               "r", "i", "f", "y", " ", "y", "o", "u", "r", " ", "A", "P",
               "I", " ", "k", "e", "y", "." >>
        S_authentication_error ==
            << "a", "u", "t", "h", "e", "n", "t", "i", "c", "a", "t", "i",
               "o", "n", "_", "e", "r", "r", "o", "r" >>
    IN
    Degraded(S_ApiAuthenticationError,
             << S_AuthMitigation1, S_AuthMitigation2, S_AuthMitigation3 >>,
             S_AuthSummary, Bool(TRUE), Str(S_authentication_error))

GenericResult_Mutant(clean_error) == Str(clean_error)

GenericResult(clean_error) ==
    LET S_ErrorAnalyzingData ==
            << "E", "r", "r", "o", "r", " ", "a", "n", "a", "l", "y", "z",
               "i", "n", "g", " ", "d", "a", "t", "a" >>
        S_GenericMitigation ==
            << "P", "l", "e", "a", "s", "e", " ", "t", "r", "y", " ", "a",
               "g", "a", "i", "n", ".", " ", "I", "f", " ", "t", "h", "e",
               " ", "e", "r", "r", "o", "r", " ", "p", "e", "r", "s", "i",
               "s", "t", "s", ",", " ", "c", "h", "e", "c", "k", " ", "y",
               "o", "u", "r", " ", "A", "P", "I", " ", "c", "o", "n", "f",
               "i", "g", "u", "r", "a", "t", "i", "o", "n", "." >>
        S_generic_error ==
            << "g", "e", "n", "e", "r", "i", "c", "_", "e", "r", "r", "o",
               "r" >>
    IN
    Degraded(S_ErrorAnalyzingData, << S_GenericMitigation >>, clean_error,
             Bool(TRUE), Str(S_generic_error))

ParseErrorResult ==
    LET S_ErrorParsingResponse ==
            << "E", "r", "r", "o", "r", " ", "p", "a", "r", "s", "i", "n",
               "g", " ", "r", "e", "s", "p", "o", "n", "s", "e" >>
        S_ParseMitigation ==
            << "P", "l", "e", "a", "s", "e", " ", "t", "r", "y", " ", "a",
               "g", "a", "i", "n", ".", " ", "T", "h", "e", " ", "A", "I",
               " ", "r", "e", "s", "p", "o", "n", "s", "e", " ", "w", "a",
               "s", " ", "i", "n", "v", "a", "l", "i", "d", "." >>
        S_ParseSummary ==
            << "E", "r", "r", "o", "r", " ", "o", "c", "c", "u", "r", "r",
               "e", "d", " ", "w", "h", "i", "l", "e", " ", "p", "a", "r",
               "s", "i", "n", "g", " ", "A", "I", " ", "r", "e", "s", "p",
               "o", "n", "s", "e", "." >>
    IN
    Degraded(S_ErrorParsingResponse, << S_ParseMitigation >>, S_ParseSummary,
             Absent, Absent)

EmptyResult ==
    LET S_NoText ==
            << "M", "o", "d", "e", "l", " ", "r", "e", "t", "u", "r", "n",
               "e", "d", " ", "n", "o", " ", "t", "e", "x", "t", "." >>
    IN  Obj(List(<< >>), List(<< >>), Str(S_NoText))

(***************************************************************************)
(* Failure classification (both except blocks of analyze).                 *)
(***************************************************************************)
IsDigit(c) == IndexIn(c, Digits) > 0

\* the first index at or after i that holds no digit
DigitsEnd(s, i) ==
    SetMin({j \in i..(Len(s) + 1) : j > Len(s) \/ ~IsDigit(s[j])})

SpacesEnd(s, i) ==
    SetMin({j \in i..(Len(s) + 1) : j > Len(s) \/ ~IsSpace(s[j])})

RECURSIVE ToNat(_)
\* int() of a run of digits
ToNat(ds) ==
    IF ds = << >> THEN 0
    ELSE 10 * ToNat(SubSeq(ds, 1, Len(ds) - 1)) + (IndexIn(ds[Len(ds)], Digits) - 1)

\* int(float(text)) for a text of whole digits, an optional point and
\* fraction digits.  float() rounds to the nearest double: 15 significant
\* digits are kept exactly; a fraction within 10^-20 of one is nearer to the
\* next whole number than to any double below it; 310 whole digits are
\* beyond the largest double, float() gives infinity and int() raises.
IntOfFloat(whole, fraction) ==
    LET lead == SetMin({i \in 1..(Len(whole) + 1) :
                            i > Len(whole) \/ whole[i] # "0"})
        significant == SubSeq(whole, lead, Len(whole))
        nines == /\ Len(fraction) >= 20
                 /\ \A i \in 1..20 : fraction[i] = "9"
    IN
    CASE Len(significant) >= 310 -> Raise("OverflowError")
      [] Len(significant) <= 9 /\ Len(significant) + Len(fraction) <= 15 ->
            Ok(ToNat(significant))
      [] Len(significant) <= 9 /\ nines -> Ok(ToNat(significant) + 1)

\* r'retry in (\d+\.?\d*)\s*s' matched at index i
RetryMatchAt(s, i) ==
    LET a == i + Len(S_retry_in)
        b == DigitsEnd(s, a)
        c == IF b <= Len(s) /\ s[b] = "." THEN b + 1 ELSE b
        d == DigitsEnd(s, c)
        e == SpacesEnd(s, d)
    IN  /\ a - 1 <= Len(s)
        /\ SubSeq(s, i, a - 1) = S_retry_in
        /\ b > a
        /\ e <= Len(s)
        /\ s[e] = "s"

\* retry_delay: 60 unless the pattern is found; int(float(group(1))), which
\* may raise
RetryDelay(error_lower) ==
    LET S_retry == << "r", "e", "t", "r", "y" >>
        S_in == << "i", "n" >>
    IN
    LET hits == {i \in 1..Len(error_lower) : RetryMatchAt(error_lower, i)}
    IN  IF Contains(error_lower, S_retry) /\ Contains(error_lower, S_in)
           /\ hits # {}
        THEN LET a == SetMin(hits) + Len(S_retry_in)
                 b == DigitsEnd(error_lower, a)
                 c == IF b <= Len(error_lower) /\ error_lower[b] = "."
                      THEN b + 1 ELSE b
                 d == DigitsEnd(error_lower, c)
             IN  IntOfFloat(SubSeq(error_lower, a, b - 1),
                            SubSeq(error_lower, c, d - 1))
        ELSE Ok(60)

\* the return statement of a quota branch, or the exception its int() raises
QuotaReturn(error_lower) ==
    LET retry_delay == RetryDelay(error_lower)
    IN  IF retry_delay.ok THEN Ok(QuotaResult(retry_delay.val))
        ELSE retry_delay

\* error_str.lower() + " " + error_repr.lower()
ErrorCombined(e) == PyLower(ErrStr(e)) \o << " " >> \o PyLower(ErrRepr(e))

IsQuotaError(e) ==
    LET S_429 == << "4", "2", "9" >>
        S_resource_exhausted ==
            << "r", "e", "s", "o", "u", "r", "c", "e", "_", "e", "x", "h",
               "a", "u", "s", "t", "e", "d" >>
        S_quota == << "q", "u", "o", "t", "a" >>
    IN
    \/ Contains(ErrStr(e), S_429)
    \/ Contains(ErrRepr(e), S_429)
    \/ Contains(ErrorCombined(e), S_resource_exhausted)
    \/ Contains(ErrorCombined(e), S_quota)

IsAuthError(e) ==
    LET S_401 == << "4", "0", "1" >>
        S_403 == << "4", "0", "3" >>
        S_authentication ==
            << "a", "u", "t", "h", "e", "n", "t", "i", "c", "a", "t", "i",
               "o", "n" >>
        S_invalid_api_key ==
            << "i", "n", "v", "a", "l", "i", "d", " ", "a", "p", "i", " ",
               "k", "e", "y" >>
    IN
    \/ Contains(ErrStr(e), S_401)
    \/ Contains(ErrStr(e), S_403)
    \/ Contains(ErrorCombined(e), S_authentication)
    \/ Contains(ErrorCombined(e), S_invalid_api_key)

CleanError(e) ==
    LET S_UnexpectedError ==
            << "A", "n", " ", "u", "n", "e", "x", "p", "e", "c", "t", "e",
               "d", " ", "e", "r", "r", "o", "r", " ", "o", "c", "c", "u",
               "r", "r", "e", "d", " ", "d", "u", "r", "i", "n", "g", " ",
               "a", "n", "a", "l", "y", "s", "i", "s", "." >>
        S_ErrorBrace1 == << "{", "'", "e", "r", "r", "o", "r", "'", ":" >>
        S_ErrorBrace2 == << "{", "\"", "e", "r", "r", "o", "r", "\"", ":" >>
    IN
    LET error_str   == ErrStr(e)
        clean_error == IF Len(error_str) > 150 THEN SubSeq(error_str, 1, 150)
                       ELSE error_str
    IN  IF Contains(clean_error, S_ErrorBrace1) \/ Contains(clean_error, S_ErrorBrace2)
        THEN S_UnexpectedError
        ELSE clean_error

\* what the outer try statement does with the exception e: the value it
\* returns, or the exception its own quota branch raises
HandlerOutcome(e) ==
    IF e.type = S_JSONDecodeError THEN Ok(ParseErrorResult)
    ELSE IF IsQuotaError(e) THEN QuotaReturn(ErrorCombined(e))
    ELSE IF IsAuthError(e) THEN Ok(AuthResult)
    ELSE Ok(GenericResult(CleanError(e)))

HandlerResult(e) == HandlerOutcome(e).val

(***************************************************************************)
(* The model's text (response.text) is a sequence of lexemes: a code fence *)
(* ```, the tag json, a space, a line break, a complete JSON document      *)
(* (carrying the value json.loads gives it) or text that is no JSON        *)
(* (carrying the character offset the decoder reports).                    *)
(***************************************************************************)
Tok(k) == [k |-> k, doc |-> Null]

Fence == Tok("fence")

Tag == Tok("tag")

Sp == Tok("sp")

Nl == Tok("nl")

Doc(value) == [k |-> "json", doc |-> value]

Junk(pos) == [k |-> "junk", doc |-> Num(pos)]

IsWs(tok) == tok.k \in {"sp", "nl"}

\* response.text.strip()
TextStrip(text) ==
    LET idx == {i \in 1..Len(text) : ~IsWs(text[i])}
    IN  IF idx = {} THEN << >> ELSE SubSeq(text, SetMin(idx), SetMax(idx))

\* json.loads: one document, with whitespace around it at most
JsonLoads(text) ==
    LET body == TextStrip(text)
    IN  IF Len(body) = 1 /\ body[1].k = "json" THEN Ok(body[1].doc)
        ELSE Raise("JSONDecodeError")

RECURSIVE WsEnd(_, _)
\* the first index at or after i that holds no whitespace
WsEnd(text, i) ==
    IF i <= Len(text) /\ IsWs(text[i]) THEN WsEnd(text, i + 1) ELSE i

\* the offset in the message of the decode error for a text json.loads rejects
DecodePos(text) ==
    LET junk == {i \in 1..Len(text) : text[i].k = "junk"}
    IN  IF junk = {} THEN WsEnd(text, 1) - 1 ELSE text[SetMin(junk)].doc[2]

\* re.sub(r'^```(?:json)?\s*\n', '', text)
ReSubLeadingFence(text) ==
    IF Len(text) = 0 \/ text[1] # Fence THEN text
    ELSE LET a   == IF Len(text) >= 2 /\ text[2] = Tag THEN 3 ELSE 2
             b   == WsEnd(text, a)
             nls == {i \in a..(b - 1) : text[i] = Nl}
         IN  IF nls = {} THEN text
             ELSE SubSeq(text, SetMax(nls) + 1, Len(text))

ReSubTrailingFence_Mutant(text) == text

\* re.sub(r'\n```\s*$', '', text)
ReSubTrailingFence(text) ==
    LET hits == {i \in 1..(Len(text) - 1) :
                    /\ text[i] = Nl
                    /\ text[i + 1] = Fence
                    /\ WsEnd(text, i + 2) > Len(text)}
    IN  IF hits = {} THEN text ELSE SubSeq(text, 1, SetMin(hits) - 1)

\* lines 425-439: the value parsed from a non-empty response.text, or the
\* ValueError raised when the text is no JSON after the fences are removed
ParseModelText(response_text) ==
    LET first == JsonLoads(response_text)
        text0 == TextStrip(response_text)
        text1 == IF Len(text0) > 0 /\ text0[1] = Fence
                 THEN ReSubTrailingFence(ReSubLeadingFence(text0))
                 ELSE text0
    IN  IF first.ok THEN first
        ELSE IF JsonLoads(text1).ok THEN JsonLoads(text1)
        ELSE Raise("ValueError")

InvalidJsonError(response_text) ==
    LET S_InvalidJsonPrefix ==
            << "I", "n", "v", "a", "l", "i", "d", " ", "J", "S", "O", "N",
               " ", "r", "e", "s", "p", "o", "n", "s", "e", " ", "f", "r",
               "o", "m", " ", "m", "o", "d", "e", "l", ":", " " >>
    IN
    Exc(S_ValueError, S_InvalidJsonPrefix \o DecodeErrorMsg(DecodePos(response_text)))

(***************************************************************************)
(* What the model may answer: bounded families of JSON documents, each     *)
(* varying one part of the schema, and the texts that carry them.          *)
(***************************************************************************)
MaxGroupsIn == 7

MaxMitigationsIn == 9

MaxWordsIn == 50

MaxRegionsIn == 3

S_ok == << "o", "k" >>

S_bihar == << "b", "i", "h", "a", "r" >>

S_Bihar == << "B", "i", "h", "a", "r" >>

S_mumbai == << "m", "u", "m", "b", "a", "i" >>

S_critical == << "c", "r", "i", "t", "i", "c", "a", "l" >>

RiskStrings ==
    { << "l" >>, << "L", "O", "W" >>, << "L", "o", "w", " " >>, S_critical,
      << " ", "h" >>, << "M", "E", "D" >>, << "m", "e", "d", "i", "u", "m" >>, S_High, << "m" >>, << >>,
      << " ", "M", "e", "d", "i", "u", "m", "\n" >>,
      << "h", "i", " ", "g", "h" >> }

RiskInputs == {Str(r) : r \in RiskStrings} \cup {Absent, Null, Num(5)}

RegionInputs ==
    LET S_MumbaiPadded == << " ", "M", "u", "m", "b", "a", "i", " " >>
        S_tamil_nadu ==
            << "t", "a", "m", "i", "l", " ", "n", "a", "d", "u" >>
    IN
    { Str(S_Mumbai), Str(S_MumbaiPadded), Str(S_mumbai), Str(<< "P", "u", "n", "e" >>),
      Str(S_bihar), Str(S_Bihar), Str(S_tamil_nadu), Num(5) }

SeqsUpTo(S, n) == UNION {[1..k -> S] : k \in 0..n}

RegionLists == SeqsUpTo(RegionInputs, MaxRegionsIn)

GroupName(i) == Str(<< "G" >> \o NumStr(i))

Mitigation(i) == Str(<< "M" >> \o NumStr(i))

GroupAt(i) ==
    Group(GroupName(i),
          Str(<< Uppers[8 + (i % 2) * 4] >>),
          List(<< Str(S_bihar), Str(S_Mumbai) >>))

Word(i) == << (Lowers \o Uppers)[i] >>

RECURSIVE SummaryWords(_, _, _, _, _)
\* words lo to hi of a summary of n words
SummaryWords(lo, hi, n, sep, dots) ==
    IF lo > hi THEN << >>
    ELSE IF lo = hi
         THEN Word(lo)
                \o (IF dots = "all" \/ (dots = "last" /\ lo = n) THEN << "." >> ELSE << >>)
                \o (IF lo < n THEN sep ELSE << >>)
         ELSE LET mid == (lo + hi) \div 2
              IN  SummaryWords(lo, mid, n, sep, dots)
                    \o SummaryWords(mid + 1, hi, n, sep, dots)

MkSummary(n, sep, pad, dots) == pad \o SummaryWords(1, n, n, sep, dots) \o pad

Separators == { << " " >>, << " ", " " >>, << "\n" >> }

Pads == { << >>, << " ", "\n" >> }

SummaryInputs ==
    { MkSummary(n, sep, pad, dots) :
        n \in 0..MaxWordsIn, sep \in Separators, pad \in Pads,
        dots \in {"none", "last", "all"} }

OneGroup(risk, regions) == List(<< Group(GroupName(1), risk, regions) >>)

RiskFamily ==
    { Obj(OneGroup(r, List(<< >>)), List(<< >>), Str(S_ok)) : r \in RiskInputs }

RegionFamily ==
    { Obj(OneGroup(Str(S_High), rs), List(<< >>), Str(S_ok)) :
        rs \in {List(q) : q \in RegionLists}
               \cup {Absent, Null, Num(0), Num(5), Str(<< >>), Str(S_Bihar)} }

CountFamily ==
    { Obj(List([i \in 1..n |-> GroupAt(i)]),
          List([i \in 1..k |-> Mitigation(i)]), Str(S_ok)) :
        n \in 0..MaxGroupsIn, k \in 0..MaxMitigationsIn }

SummaryFamily ==
    { Obj(List(<< >>), List(<< >>), Str(s)) : s \in SummaryInputs }

ScalarInputs ==
    { Absent, Null, Num(0), Num(5), Str(<< >>), Str(<< "a", "b", "c" >>),
      Str(<< "a", "b", "c", "d", "e", "f", "g" >>) }

ContainerInputs ==
    { List(<< >>), Dict(<< >>), Dict(<< << "x" >> >>),
      Dict([i \in 1..(MAX_MITIGATIONS + 1) |-> Word(i)]) }

GroupsTypeInputs ==
    LET K_group == << "g", "r", "o", "u", "p" >>
    IN
    ScalarInputs \cup ContainerInputs
      \cup { List(<< Null >>), List(<< Num(5) >>), List(<< Str(K_group) >>),
             List(<< Str(K_risk_level) >>), List(<< List(<< >>) >>),
             List(<< Group(Absent, Absent, Absent) >>),
             List(<< Group(Str(<< >>), Str(<< "l" >>), Str(S_mumbai)) >>),
             List(<< Group(Num(0), Absent, Num(0)) >>) }

TypeFamily ==
    { Obj(g, m, r) :
        g \in GroupsTypeInputs,
        m \in ScalarInputs \cup ContainerInputs \cup {List(<< Mitigation(1) >>)},
        r \in {Absent, Null, Num(5), Str(S_ok), List(<< >>)} }

ComboFamily ==
    { Obj(List([i \in 1..n |-> Group(GroupName(i), r, List(<< g >>))]),
          List([i \in 1..k |-> Mitigation(i)]), Str(MkSummary(w, << " " >>, << >>, d))) :
        n \in {1, MaxGroupsIn}, k \in {0, MaxMitigationsIn},
        r \in {Str(<< "l" >>), Str(S_critical), Absent},
        g \in {Str(S_mumbai), Str(S_Mumbai), Str(S_bihar)},
        w \in {2, MaxWordsIn}, d \in {"none", "last"} }

NonObjects ==
    { List(<< >>), List(<< Str(K_affected_groups) >>), Str(S_ok),
      Str(K_affected_groups), Num(5), Null }

\* the entries a document may hold after its first MAX_AFFECTED_GROUPS groups
GroupTails ==
    { << >>, << GroupAt(4) >>, << GroupAt(5), GroupAt(4) >>, << Null >>,
      << Num(5) >>, << GroupAt(4), Str(K_risk_level) >>,
      << Group(GroupName(4), Num(5), List(<< >>)) >>,
      << Group(GroupName(4), Null, List(<< >>)) >> }

TailFamily ==
    { Obj(List([i \in 1..MAX_AFFECTED_GROUPS |-> GroupAt(i)] \o tail),
          List(<< Mitigation(1) >>), Str(S_ok)) : tail \in GroupTails }

ModelOutputs ==
    RiskFamily \cup RegionFamily \cup CountFamily \cup SummaryFamily
      \cup TypeFamily \cup ComboFamily \cup NonObjects \cup TailFamily

\* the documents that are also sent inside code fences
FencedOutputs ==
    { Obj(OneGroup(Str(<< "l" >>), List(<< Str(S_bihar) >>)), List(<< >>), Str(S_ok)),
      Obj(Absent, Absent, Absent), Null }

FenceOpenings ==
    { << Fence, Nl >>, << Fence, Tag, Nl >>, << Fence, Tag, Sp, Nl >>,
      << Fence, Nl, Nl, Sp >>, << Nl, Fence, Tag, Nl >>,
      << Fence >>, << Fence, Tag >>, << Fence, Tag, Sp >> }

FenceClosings ==
    { << Nl, Fence >>, << Nl, Fence, Nl >>, << Nl, Fence, Sp >>,
      << Sp, Nl, Fence >>, << Fence >>, << Nl, Sp, Fence >> }

FencedTexts ==
    { open \o << Doc(value) >> \o close :
        open \in FenceOpenings, close \in FenceClosings, value \in FencedOutputs }

BareTexts ==
    { << Doc(value) >> : value \in ModelOutputs }
      \cup { << Nl, Doc(value), Sp >> : value \in FencedOutputs }

JunkTexts ==
    { << Junk(0) >>, << Junk(429) >>, << Junk(401) >>, << Sp >>,
      << Doc(Null), Junk(4) >>, << Fence, Nl, Junk(4), Nl, Fence >>,
      << Fence, Tag, Nl, Doc(Null) >>, << Doc(Null), Nl, Fence >> }

ResponseTexts == BareTexts \cup FencedTexts \cup JunkTexts \cup {<< >>}

ApiErrors ==
    LET S_ClientError ==
            << "C", "l", "i", "e", "n", "t", "E", "r", "r", "o", "r" >>
        S_ServerError ==
            << "S", "e", "r", "v", "e", "r", "E", "r", "r", "o", "r" >>
        S_ConnectionError ==
            << "C", "o", "n", "n", "e", "c", "t", "i", "o", "n", "E", "r",
               "r", "o", "r" >>
        S_QuotaError ==
            << "Q", "u", "o", "t", "a", "E", "r", "r", "o", "r" >>
        S_AuthenticationError ==
            << "A", "u", "t", "h", "e", "n", "t", "i", "c", "a", "t", "i",
               "o", "n", "E", "r", "r", "o", "r" >>
        M_ResourceExhausted ==
            << "4", "2", "9", " ", "R", "E", "S", "O", "U", "R", "C", "E",
               "_", "E", "X", "H", "A", "U", "S", "T", "E", "D", ".", " ",
               "P", "l", "e", "a", "s", "e", " ", "r", "e", "t", "r", "y",
               " ", "i", "n", " ", "1", "2", ".", "5", "s", "." >>
        M_TooManyRequests ==
            << "4", "2", "9", " ", "T", "o", "o", " ", "M", "a", "n", "y",
               " ", "R", "e", "q", "u", "e", "s", "t", "s" >>
        M_QuotaMetric ==
            << "Q", "u", "o", "t", "a", " ", "e", "x", "c", "e", "e", "d",
               "e", "d", " ", "f", "o", "r", " ", "m", "e", "t", "r", "i",
               "c", ";", " ", "r", "e", "t", "r", "y", " ", "i", "n", " ",
               "7", "s" >>
        M_LimitReached ==
            << "l", "i", "m", "i", "t", " ", "r", "e", "a", "c", "h", "e",
               "d" >>
        M_Unauthorized ==
            << "4", "0", "1", " ", "U", "n", "a", "u", "t", "h", "o", "r",
               "i", "z", "e", "d" >>
        M_Forbidden ==
            << "4", "0", "3", " ", "F", "o", "r", "b", "i", "d", "d", "e",
               "n" >>
        M_InvalidKey ==
            << "I", "n", "v", "a", "l", "i", "d", " ", "A", "P", "I", " ",
               "k", "e", "y" >>
        M_BadCredentials ==
            << "b", "a", "d", " ", "c", "r", "e", "d", "e", "n", "t", "i",
               "a", "l", "s" >>
        M_QuotaAndAuth ==
            << "4", "2", "9", " ", "q", "u", "o", "t", "a", " ", "a", "n",
               "d", " ", "a", "u", "t", "h", "e", "n", "t", "i", "c", "a",
               "t", "i", "o", "n", " ", "f", "a", "i", "l", "e", "d" >>
        M_ConnectionReset ==
            << "c", "o", "n", "n", "e", "c", "t", "i", "o", "n", " ", "r",
               "e", "s", "e", "t" >>
        M_RetryRounded ==
            << "4", "2", "9", " ", "r", "e", "t", "r", "y", " ", "i", "n",
               " ", "0", "." >> \o [i \in 1..20 |-> "9"] \o << "s" >>
        M_RetryHuge ==
            << "4", "2", "9", " ", "r", "e", "t", "r", "y", " ", "i", "n",
               " " >> \o [i \in 1..310 |-> "9"] \o << "s" >>
        M_RetryTwice ==
            << "q", "u", "o", "t", "a", ":", " ", "R", "e", "t", "r", "y",
               " ", "I", "n", " ", "0", "5", " ", "S", "e", "c", ",", " ",
               "r", "e", "t", "r", "y", " ", "i", "n", " ", "9", "s" >>
        M_NoNumber ==
            << "4", "2", "9", " ", "r", "e", "t", "r", "y", " ", "i", "n",
               " ", "a", " ", "m", "i", "n", "u", "t", "e", "s" >>
        M_ErrorDump ==
            << "{", "'", "e", "r", "r", "o", "r", "'", ":", " ", "'", "i",
               "n", "t", "e", "r", "n", "a", "l", "'", "}" >>
    IN
    { Exc(S_ClientError, M_ResourceExhausted), Exc(S_ClientError, M_TooManyRequests),
      Exc(S_ClientError, M_QuotaMetric), Exc(S_QuotaError, M_LimitReached),
      Exc(S_ClientError, M_Unauthorized), Exc(S_ClientError, M_Forbidden),
      Exc(S_ClientError, M_InvalidKey), Exc(S_AuthenticationError, M_BadCredentials),
      Exc(S_ClientError, M_QuotaAndAuth), Exc(S_ConnectionError, M_ConnectionReset),
      Exc(S_ServerError, M_ErrorDump),
      Exc(S_ClientError, M_RetryRounded), Exc(S_ClientError, M_RetryHuge),
      Exc(S_ClientError, M_RetryTwice), Exc(S_ClientError, M_NoNumber),
      Exc(S_JSONDecodeError, DecodeErrorMsg(401)),
      Exc(S_JSONDecodeError, DecodeErrorMsg(0)),
      Exc(S_JSONDecodeError, DecodeErrorMsg(429)) }

(***************************************************************************)
(* POST /api/analyze (main.py): the uploads, the validators, the tools     *)
(* the handler calls and the envelope it answers with.                     *)
(***************************************************************************)
MAX_FILE_SIZE == 10485760

ALLOWED_POLICY_EXTENSIONS == { << ".", "p", "d", "f" >> }

ALLOWED_DEMOGRAPHIC_EXTENSIONS ==
    { << ".", "c", "s", "v" >>, << ".", "x", "l", "s", "x" >>,
      << ".", "x", "l", "s" >> }

validate_file_extension_Mutant(filename, allowed_extensions) == TRUE

validate_file_extension(filename, allowed_extensions) ==
    /\ filename # << >>
    /\ \E ext \in allowed_extensions :
         LET name == PyLower(filename)
             suffix == PyLower(ext)
         IN  /\ Len(name) >= Len(suffix)
             /\ SubSeq(name, Len(name) - Len(suffix) + 1, Len(name)) = suffix

validate_file_size(size, max_size) == size <= max_size

\* an upload: its filename, the size of its content, and what a reader
\* finds in it (the text of a PDF; the number of rows and the column names,
\* joined by ", ", of a table each of whose cells holds the text x).
\* given is FALSE for the optional upload that was not sent (None).
Upload(filename, size, readable, text, rows, columns) ==
    [given |-> TRUE, filename |-> filename, size |-> size,
     readable |-> readable, text |-> text, rows |-> rows, columns |-> columns]

NoUpload ==
    [given |-> FALSE, filename |-> << >>, size |-> 0, readable |-> FALSE,
     text |-> << >>, rows |-> 0, columns |-> << >>]

\* tools.py 12-24: the text of the PDF, or the exception raised
extract_policy_text(file) ==
    IF file.readable THEN Ok(file.text) ELSE Raise("Exception")

\* tools.py 27-122, for a table each of whose cells holds the text x (every
\* column then has dtype object: the blocks that need a numeric column add
\* no line, and every count of values finds x alone)
generate_demographic_summary(file) ==
    LET columns == PyLower(file.columns)
        AnyColumn(keywords) ==
            \E k \in 1..Len(keywords) : Contains(columns, keywords[k])
        top == IF file.rows > 0 THEN << "x" >> ELSE << >>
        S_TotalRecords ==
            << "T", "o", "t", "a", "l", " ", "r", "e", "c", "o", "r", "d",
               "s", ":", " " >>
        education_keywords ==
            << << "e", "d", "u", "c", "a", "t", "i", "o", "n" >>,
               << "l", "i", "t", "e", "r", "a", "c", "y" >>,
               << "l", "i", "t", "e", "r", "a", "t", "e" >> >>
        region_keywords ==
            << << "r", "e", "g", "i", "o", "n" >>,
               << "s", "t", "a", "t", "e" >>,
               << "d", "i", "s", "t", "r", "i", "c", "t" >>,
               << "a", "r", "e", "a" >>,
               << "l", "o", "c", "a", "t", "i", "o", "n" >> >>
        vulnerability_keywords ==
            << << "u", "n", "e", "m", "p", "l", "o", "y", "m", "e", "n", "t"
                  >>,
               << "p", "o", "v", "e", "r", "t", "y" >>,
               << "v", "u", "l", "n", "e", "r", "a", "b", "l", "e" >>,
               << "d", "i", "s", "a", "b", "i", "l", "i", "t", "y" >>,
               << "e", "l", "d", "e", "r", "l", "y" >>,
               << "c", "h", "i", "l", "d", "r", "e", "n" >> >>
        employment_keywords ==
            << << "e", "m", "p", "l", "o", "y", "m", "e", "n", "t" >>,
               << "e", "m", "p", "l", "o", "y", "e", "d" >>,
               << "j", "o", "b" >> >>
        S_TopEducation ==
            << "T", "o", "p", " ", "e", "d", "u", "c", "a", "t", "i", "o",
               "n", " ", "l", "e", "v", "e", "l", "s", ":", " " >>
        S_TopRegions ==
            << "T", "o", "p", " ", "r", "e", "g", "i", "o", "n", "s", " ",
               "b", "y", " ", "d", "a", "t", "a", " ", "p", "o", "i", "n", "t",
               "s", ":", " " >>
        S_Top ==
            << "T", "o", "p", " " >>
        S_categories ==
            << " ", "c", "a", "t", "e", "g", "o", "r", "i", "e", "s", ":",
               " " >>
        S_Employment ==
            << "E", "m", "p", "l", "o", "y", "m", "e", "n", "t", " ", "d",
               "i", "s", "t", "r", "i", "b", "u", "t", "i", "o", "n", ":", " "
               >>
        S_NoIndicators ==
            << "D", "e", "m", "o", "g", "r", "a", "p", "h", "i", "c", " ",
               "d", "a", "t", "a", " ", "l", "o", "a", "d", "e", "d", " ", "b",
               "u", "t", " ", "n", "o", " ", "k", "e", "y", " ", "i", "n", "d",
               "i", "c", "a", "t", "o", "r", "s", " ", "i", "d", "e", "n", "t",
               "i", "f", "i", "e", "d", "." >>
        education ==
            IF AnyColumn(education_keywords)
            THEN << S_TopEducation \o top >> ELSE << >>
        region ==
            IF AnyColumn(region_keywords)
            THEN << S_TopRegions \o top >> ELSE << >>
        Vulnerability(k) ==
            IF Contains(columns, vulnerability_keywords[k])
            THEN << S_Top \o vulnerability_keywords[k] \o S_categories \o top >>
            ELSE << >>
        employment ==
            IF AnyColumn(employment_keywords)
            THEN << S_Employment \o
                    (IF file.rows > 0
                     THEN << "x", ":", " " >> \o NumStr(file.rows) \o << "%" >>
                     ELSE << >>) >>
            ELSE << >>
        summary_parts ==
            << S_TotalRecords \o NumStr(file.rows) >> \o education \o region
              \o Vulnerability(1) \o Vulnerability(2) \o Vulnerability(3)
              \o Vulnerability(4) \o Vulnerability(5) \o Vulnerability(6)
              \o employment
        RECURSIVE Lines(_, _)
        Lines(lo, hi) ==
            IF lo = hi THEN summary_parts[lo]
            ELSE LET mid == (lo + hi) \div 2
                 IN  Lines(lo, mid) \o << "\n" >> \o Lines(mid + 1, hi)
    IN  IF summary_parts # << >>
        THEN Lines(1, Len(summary_parts))
        ELSE S_NoIndicators

\* tools.py 125-147
load_demographics(file) ==
    LET S_Context ==
            << "D", "e", "m", "o", "g", "r", "a", "p", "h", "i", "c", " ",
               "C", "o", "n", "t", "e", "x", "t", ":", "\n" >>
        S_Columns ==
            << "\n", "\n", "A", "v", "a", "i", "l", "a", "b", "l", "e", " ",
               "d", "a", "t", "a", " ", "c", "o", "l", "u", "m", "n", "s",
               ":", " " >>
        S_ErrorLoadingFile ==
            << "E", "r", "r", "o", "r", " ", "l", "o", "a", "d", "i", "n",
               "g", " ", "f", "i", "l", "e", ":", " ", "n", "o", " ", "c",
               "o", "l", "u", "m", "n", "s" >>
    IN  IF file.readable
        THEN S_Context \o generate_demographic_summary(file) \o S_Columns
               \o file.columns
        ELSE S_ErrorLoadingFile

\* main.py 212-216: demographics_text after the demographic file was loaded
LoadedDemographics(file) ==
    LET S_ErrorLoadingFile ==
            << "E", "r", "r", "o", "r", " ", "l", "o", "a", "d", "i", "n",
               "g", " ", "f", "i", "l", "e" >>
        S_NoneExtracted ==
            << "N", "o", " ", "d", "e", "m", "o", "g", "r", "a", "p", "h",
               "i", "c", " ", "d", "a", "t", "a", " ", "c", "o", "u", "l",
               "d", " ", "b", "e", " ", "e", "x", "t", "r", "a", "c", "t",
               "e", "d" >>
        text == load_demographics(file)
    IN  IF text = << >> \/ Contains(text, S_ErrorLoadingFile)
        THEN S_NoneExtracted ELSE text

\* main.py 221-222
NoDemographicsProvided ==
    << "N", "o", " ", "d", "e", "m", "o", "g", "r", "a", "p", "h", "i", "c",
       " ", "d", "a", "t", "a", " ", "p", "r", "o", "v", "i", "d", "e", "d" >>

\* main.py 273-278: the value of the chain of and; None for no upload
used_demographics(file, text) ==
    LET S_ErrorLoading ==
            << "E", "r", "r", "o", "r", " ", "l", "o", "a", "d", "i", "n",
               "g" >>
        S_NoDemographic ==
            << "N", "o", " ", "d", "e", "m", "o", "g", "r", "a", "p", "h",
               "i", "c" >>
    IN  IF ~file.given THEN Null
        ELSE IF file.filename = << >> THEN Str(<< >>)
        ELSE IF text = << >> THEN Str(<< >>)
        ELSE IF Contains(text, S_ErrorLoading) THEN Bool(FALSE)
        ELSE Bool(~Contains(text, S_NoDemographic))

ReadsAsQuota_Mutant(summary) == FALSE

\* main.py 237-238: the result reads as a quota failure
ReadsAsQuota(summary) ==
    \/ Contains(PyLower(summary), << "q", "u", "o", "t", "a" >>)
    \/ Contains(summary, << "4", "2", "9" >>)

\* main.py 282-306: the body of the 200 response.  The dicts among the
\* groups of the modelled results are the values Group makes.
Envelope(response, used) ==
    LET S_UnknownGroup ==
            << "U", "n", "k", "n", "o", "w", "n", " ", "G", "r", "o", "u",
               "p" >>
        Default(x, d) == IF x[1] = "absent" THEN d ELSE x
        groups == IF response[2].affected_groups[1] = "list"
                  THEN response[2].affected_groups[2] ELSE << >>
        IsDict(g) == g[1] = "group"
        Normal(g) ==
            Group(Default(g[2].group, Str(S_UnknownGroup)),
                  Default(g[2].risk_level, Str(S_Unknown)),
                  IF g[2].regions[1] = "list" THEN g[2].regions ELSE List(<< >>))
        dicts == SelectSeq(groups, IsDict)
    IN  [affected_groups |-> [i \in 1..Len(dicts) |-> Normal(dicts[i])],
         mitigations |->
            IF response[2].mitigations[1] = "list"
            THEN response[2].mitigations[2] ELSE << >>,
         reasoning_summary |->
            PyStr(Default(response[2].reasoning_summary, Str(S_AnalysisCompleted))),
         error |->
            IF "error" \in DOMAIN response[2] THEN response[2].error ELSE Null,
         demographics_used |-> used]

NoBody ==
    [affected_groups |-> << >>, mitigations |-> << >>,
     reasoning_summary |-> << >>, error |-> Null, demographics_used |-> Null]

\* what the model answers the requests of the HTTP layer with
RequestTexts ==
    LET S_QuotaWord ==
            << "R", "a", "t", "i", "o", "n", " ", "Q", "u", "o", "t", "a",
               "s", " ", "a", "r", "e", " ", "c", "u", "t", "." >>
        S_429Word ==
            << "S", "e", "c", "t", "i", "o", "n", " ", "4", "2", "9", " ",
               "a", "p", "p", "l", "i", "e", "s", "." >>
    IN
    JunkTexts \cup {<< >>}
      \cup { << Doc(value) >> : value \in FencedOutputs \cup NonObjects }
      \cup { << Fence, Tag, Nl, Doc(value), Nl, Fence >> : value \in FencedOutputs }
      \cup { << Doc(Obj(List(<< GroupAt(1) >>), List(<< Mitigation(1) >>), r)) >> :
                r \in {Str(S_ok), Str(S_QuotaWord), Str(S_429Word), Null, Num(5),
                       List(<< >>)} }

\* the uploads of the modelled requests
PolicyUploads ==
    LET S_p_pdf == << "p", ".", "p", "d", "f" >>
        S_PolicyText ==
            << "S", "u", "b", "s", "i", "d", "y", " ", "e", "n", "d", "s",
               " ", "i", "n", " ", "M", "a", "y" >>
        S_ShortText == << " ", " ", "S", "u", "b", "s", "i", "d", "y", "\n", "\n" >>
    IN
    { Upload(S_p_pdf, 1000, TRUE, S_PolicyText, 0, << >>),
      Upload(<< "P", ".", "P", "D", "F" >>, MAX_FILE_SIZE, TRUE, S_PolicyText, 0, << >>),
      Upload(<< >>, 1000, TRUE, S_PolicyText, 0, << >>),
      Upload(<< "p", ".", "t", "x", "t" >>, 1000, TRUE, S_PolicyText, 0, << >>),
      Upload(<< "p", "d", "f" >>, 1000, TRUE, S_PolicyText, 0, << >>),
      Upload(S_p_pdf, MAX_FILE_SIZE + 1, TRUE, S_PolicyText, 0, << >>),
      Upload(S_p_pdf, 1000, FALSE, << >>, 0, << >>),
      Upload(S_p_pdf, 1000, TRUE, << >>, 0, << >>),
      Upload(S_p_pdf, 1000, TRUE, S_ShortText, 0, << >>) }

DemographicUploads ==
    LET S_d_csv == << "d", ".", "c", "s", "v" >>
        S_Columns == << "i", "d", ",", " ", "w", "a", "r", "d" >>
        S_KeywordColumns ==
            << "S", "t", "a", "t", "e", ",", " ", "U", "n", "e", "m", "p",
               "l", "o", "y", "m", "e", "n", "t", ",", " ", "E", "l", "d", "e",
               "r", "l", "y" >>
        S_NumericOnlyColumns ==
            << "i", "d", ",", " ", "P", "o", "p", "u", "l", "a", "t", "i",
               "o", "n", ",", " ", "I", "n", "c", "o", "m", "e", ",", " ", "I",
               "n", "t", "e", "r", "n", "e", "t" >>
        S_MarkerColumn ==
            << "i", "d", ",", " ", "N", "o", " ", "d", "e", "m", "o", "g",
               "r", "a", "p", "h", "i", "c" >>
        S_ErrorColumn ==
            << "E", "r", "r", "o", "r", " ", "l", "o", "a", "d", "i", "n",
               "g", " ", "f", "i", "l", "e" >>
    IN
    { NoUpload,
      Upload(<< >>, 100, TRUE, << >>, 3, S_Columns),
      Upload(S_d_csv, 100, TRUE, << >>, 3, S_Columns),
      Upload(<< "D", ".", "X", "L", "S" >>, MAX_FILE_SIZE, TRUE, << >>, 3, S_Columns),
      Upload(<< "d", ".", "j", "s", "o", "n" >>, 100, TRUE, << >>, 3, S_Columns),
      Upload(<< "d", ".", "x", "l", "s", "x" >>, MAX_FILE_SIZE + 1, TRUE, << >>, 3, S_Columns),
      Upload(S_d_csv, 100, FALSE, << >>, 0, << >>),
      Upload(S_d_csv, 100, TRUE, << >>, 3, S_MarkerColumn),
      Upload(S_d_csv, 100, TRUE, << >>, 3, S_ErrorColumn),
      Upload(S_d_csv, 100, TRUE, << >>, 3, S_KeywordColumns),
      Upload(S_d_csv, 100, TRUE, << >>, 0, S_KeywordColumns),
      Upload(S_d_csv, 100, TRUE, << >>, 0, S_Columns),
      Upload(S_d_csv, 100, TRUE, << >>, 3, S_NumericOnlyColumns) }

(***************************************************************************)
(* PolicyImpactAgent.analyze as a state machine.                           *)
(***************************************************************************)
VARIABLES
    pc,         \* where analyze() stands
    response,   \* response.text
    raised,     \* the exception in flight
    result,     \* the value being normalized
    returned,   \* the value analyze() returned
    exit,       \* the return statement that returned it
    again,      \* _post_process_normalize applied to the returned value
    gateway,    \* the exception generate_content raised, if it raised
    calls,      \* how many times generate_content was called
    hpc,        \* where analyze_policy stands
    policy_file,        \* the required upload
    demographic_file,   \* the optional upload
    policy_tmp_path,    \* "" for None
    demo_tmp_path,      \* "" for None
    files,      \* the temporary files that exist
    demographics_text,
    log,        \* the tools called so far
    status,     \* the status of the HTTP response, 0 before it is sent
    envelope    \* the body of a 200 response

\* the variables of analyze_policy
handler ==
    << hpc, policy_file, demographic_file, policy_tmp_path, demo_tmp_path,
       files, demographics_text, log, status, envelope >>

vars ==
    << pc, response, raised, result, returned, exit, again, gateway, calls,
       handler >>

NotRun == Raise("not run")

Init ==
    /\ pc = "start"
    /\ response = << >>
    /\ raised = NoExc
    /\ result = Null
    /\ returned = Null
    /\ exit = "none"
    /\ again = NotRun
    /\ gateway = NoExc
    /\ calls = 0
    /\ hpc = "direct"
    /\ policy_file = NoUpload
    /\ demographic_file = NoUpload
    /\ policy_tmp_path = ""
    /\ demo_tmp_path = ""
    /\ files = {}
    /\ demographics_text = << >>
    /\ log = {}
    /\ status = 0
    /\ envelope = NoBody

GenerateContent_Mutant ==
    /\ pc = "start"
    /\ \/ \E text \in (IF hpc = "direct" THEN ResponseTexts ELSE RequestTexts) :
            /\ response' = text
            /\ pc' = "responded"
            /\ UNCHANGED << raised, gateway >>
       \/ \E e \in ApiErrors :
            /\ raised' = e
            /\ gateway' = e
            /\ pc' = IF calls < 1 THEN "start" ELSE "api_error"
            /\ UNCHANGED response
    /\ calls' = calls + 1
    /\ UNCHANGED << result, returned, exit, again, handler >>

\* lines 379-384: the call returns a text or raises
GenerateContent ==
    /\ pc = "start"
    /\ \/ \E text \in (IF hpc = "direct" THEN ResponseTexts ELSE RequestTexts) :
            /\ response' = text
            /\ pc' = "responded"
            /\ UNCHANGED << raised, gateway >>
       \/ \E e \in ApiErrors :
            /\ raised' = e
            /\ gateway' = e
            /\ pc' = "api_error"
            /\ UNCHANGED response
    /\ calls' = calls + 1
    /\ UNCHANGED << result, returned, exit, again, handler >>

\* lines 385-421: the inner except block
HandleApiError ==
    /\ pc = "api_error"
    /\ IF IsQuotaError(raised)
       THEN LET done == QuotaReturn(ErrorCombined(raised))
            IN  IF done.ok
                THEN /\ returned' = done.val
                     /\ exit' = "quota"
                     /\ pc' = "returned"
                     /\ raised' = NoExc
                ELSE /\ raised' = NormalizerExc(done.exc)
                     /\ pc' = "failed"
                     /\ UNCHANGED << returned, exit >>
       ELSE /\ pc' = "failed"
            /\ UNCHANGED << returned, exit, raised >>
    /\ UNCHANGED << response, result, again, gateway, calls, handler >>

\* lines 423-439 and 447-453
ParseResponse ==
    /\ pc = "responded"
    /\ IF response = << >>
       THEN /\ returned' = EmptyResult
            /\ exit' = "empty"
            /\ pc' = "returned"
            /\ UNCHANGED << result, raised >>
       ELSE LET parsed == ParseModelText(response)
            IN  IF parsed.ok
                THEN /\ result' = parsed.val
                     /\ pc' = "rules"
                     /\ UNCHANGED << returned, exit, raised >>
                ELSE /\ raised' = InvalidJsonError(response)
                     /\ pc' = "failed"
                     /\ UNCHANGED << returned, exit, result >>
    /\ UNCHANGED << response, again, gateway, calls, handler >>

\* a step of _post_process_normalize: its value, or its exception in flight
Step(done, next) ==
    /\ IF done.ok
       THEN /\ result' = done.val
            /\ pc' = next
            /\ UNCHANGED raised
       ELSE /\ raised' = NormalizerExc(done.exc)
            /\ pc' = "failed"
            /\ UNCHANGED result
    /\ UNCHANGED << response, returned, exit, again, gateway, calls, handler >>

\* line 298
RulesStep == pc = "rules" /\ Step(ApplyDeterministicRules(result), "anchoring")

\* line 299
AnchoringStep == pc = "anchoring" /\ Step(ApplyAnchoringLogic(result), "regions")

\* line 300
RegionsStep == pc = "regions" /\ Step(NormalizeRegions(result), "validation")

\* lines 302-317 and 442-445
ValidateAndReturn ==
    /\ pc = "validation"
    /\ LET done == FinalValidation(result)
       IN  IF done.ok
           THEN /\ returned' = done.val
                /\ exit' = "normalized"
                /\ pc' = "returned"
                /\ UNCHANGED raised
           ELSE /\ raised' = NormalizerExc(done.exc)
                /\ pc' = "failed"
                /\ UNCHANGED << returned, exit >>
    /\ UNCHANGED << response, result, again, gateway, calls, handler >>

\* lines 455-522: the except blocks of the outer try statement
HandleError ==
    /\ pc = "failed"
    /\ LET done == HandlerOutcome(raised)
       IN  IF done.ok
           THEN /\ returned' = done.val
                /\ exit' = "handler"
                /\ pc' = "returned"
                /\ raised' = NoExc
           ELSE /\ raised' = NormalizerExc(done.exc)
                /\ pc' = "raised"
                /\ UNCHANGED << returned, exit >>
    /\ UNCHANGED << response, result, again, gateway, calls, handler >>

\* the normalizer run once more on a result it produced
Renormalize ==
    /\ pc = "returned"
    /\ exit = "normalized"
    /\ again' = PostProcessNormalize(returned)
    /\ pc' = "renormalized"
    /\ UNCHANGED << response, raised, result, returned, exit, gateway, calls, handler >>

Next ==
    \/ GenerateContent
    \/ HandleApiError
    \/ ParseResponse
    \/ RulesStep
    \/ AnchoringStep
    \/ RegionsStep
    \/ ValidateAndReturn
    \/ HandleError
    \/ Renormalize

Spec == Init /\ [][Next]_vars

(***************************************************************************)
(* analyze_policy, the handler of POST /api/analyze, with analyze() run in *)
(* a thread of its own (asyncio.to_thread) under asyncio.wait_for.         *)
(***************************************************************************)
\* the variables of the thread that runs analyze()
agent ==
    << pc, response, raised, result, returned, exit, again, gateway, calls >>

InitHttp ==
    /\ pc = "idle"
    /\ response = << >>
    /\ raised = NoExc
    /\ result = Null
    /\ returned = Null
    /\ exit = "none"
    /\ again = NotRun
    /\ gateway = NoExc
    /\ calls = 0
    /\ hpc = "start"
    /\ policy_file \in PolicyUploads
    /\ demographic_file \in DemographicUploads
    /\ policy_tmp_path = ""
    /\ demo_tmp_path = ""
    /\ files = {}
    /\ demographics_text = << >>
    /\ log = {}
    /\ status = 0
    /\ envelope = NoBody

\* the handler ends: the response goes out with this status and the finally
\* block (main.py 326-333) has unlinked the files the two variables name
Finish(code, content, disk, policy_path, demo_path) ==
    /\ status' = code
    /\ envelope' = content
    /\ files' = disk \ {policy_path, demo_path}
    /\ hpc' = "done"

\* main.py 150-187: the policy file is validated, saved and read.  The
\* temporary file exists from line 170 on; its name is assigned at line 172,
\* after the write, which may fail.
ReceivePolicyFile ==
    /\ hpc = "start"
    /\ \E written \in BOOLEAN :
         IF ~(/\ policy_file.filename # << >>
              /\ validate_file_extension(policy_file.filename,
                                         ALLOWED_POLICY_EXTENSIONS)
              /\ validate_file_size(policy_file.size, MAX_FILE_SIZE))
         THEN /\ Finish(400, NoBody, files, "", "")
              /\ UNCHANGED << policy_tmp_path, log >>
         ELSE IF ~written
         THEN /\ Finish(500, NoBody, files \cup {"policy.tmp"}, "", "")
              /\ UNCHANGED << policy_tmp_path, log >>
         ELSE LET policy_text == extract_policy_text(policy_file)
              IN  /\ policy_tmp_path' = "policy.tmp"
                  /\ log' = log \cup {"extract_policy_text"}
                  /\ IF /\ policy_text.ok
                        /\ policy_text.val # << >>
                        /\ Len(PyStrip(policy_text.val)) >= 10
                     THEN /\ hpc' = "policy_read"
                          /\ files' = files \cup {"policy.tmp"}
                          /\ UNCHANGED << status, envelope >>
                     ELSE Finish(400, NoBody, files \cup {"policy.tmp"},
                                 "policy.tmp", "")
    /\ UNCHANGED << policy_file, demographic_file, demo_tmp_path,
                    demographics_text, agent >>

\* main.py 189-222: the demographic file, if one was sent
ReceiveDemographicFile ==
    /\ hpc = "policy_read"
    /\ \E written \in BOOLEAN :
         IF demographic_file.given /\ demographic_file.filename # << >>
         THEN IF ~(/\ validate_file_extension(demographic_file.filename,
                                              ALLOWED_DEMOGRAPHIC_EXTENSIONS)
                   /\ validate_file_size(demographic_file.size, MAX_FILE_SIZE))
              THEN /\ Finish(400, NoBody, files, policy_tmp_path, "")
                   /\ UNCHANGED << demo_tmp_path, demographics_text, log >>
              ELSE IF ~written
              THEN /\ Finish(500, NoBody, files \cup {"demo.tmp"},
                             policy_tmp_path, "")
                   /\ UNCHANGED << demo_tmp_path, demographics_text, log >>
              ELSE /\ demo_tmp_path' = "demo.tmp"
                   /\ files' = files \cup {"demo.tmp"}
                   /\ log' = log \cup {"load_demographics"}
                   /\ demographics_text' = LoadedDemographics(demographic_file)
                   /\ hpc' = "ready"
                   /\ UNCHANGED << status, envelope >>
         ELSE /\ demographics_text' = NoDemographicsProvided
              /\ hpc' = "ready"
              /\ UNCHANGED << demo_tmp_path, files, log, status, envelope >>
    /\ UNCHANGED << policy_file, demographic_file, policy_tmp_path, agent >>

\* main.py 227-234: analyze() is started in a thread and awaited
CallAgent ==
    /\ hpc = "ready"
    /\ pc = "idle"
    /\ hpc' = "waiting"
    /\ pc' = "start"
    /\ UNCHANGED << response, raised, result, returned, exit, again, gateway,
                    calls, policy_file, demographic_file, policy_tmp_path,
                    demo_tmp_path, files, demographics_text, log, status,
                    envelope >>

\* main.py 234-316: analyze() came back within the wait
Respond ==
    /\ hpc = "waiting"
    /\ pc \in {"returned", "raised"}
    /\ LET quota_text ==
               \/ Contains(ErrStr(raised), << "4", "2", "9" >>)
               \/ Contains(ErrStr(raised),
                           << "R", "E", "S", "O", "U", "R", "C", "E", "_",
                              "E", "X", "H", "A", "U", "S", "T", "E", "D" >>)
               \/ Contains(PyLower(ErrStr(raised)),
                           << "q", "u", "o", "t", "a" >>)
           summary == returned[2].reasoning_summary
           code ==
               IF pc = "raised" THEN (IF quota_text THEN 429 ELSE 500)
               ELSE IF returned[1] # "obj" THEN 500
               ELSE IF summary[1] \notin {"absent", "str"} THEN 500
               ELSE IF summary[1] = "str" /\ ReadsAsQuota(summary[2]) THEN 429
               ELSE 200
       IN  Finish(code,
                  IF code = 200
                  THEN Envelope(returned,
                                used_demographics(demographic_file,
                                                  demographics_text))
                  ELSE NoBody,
                  files, policy_tmp_path, demo_tmp_path)
    /\ UNCHANGED << policy_file, demographic_file, policy_tmp_path,
                    demo_tmp_path, demographics_text, log, agent >>

Timeout_Mutant ==
    /\ hpc = "waiting"
    /\ Finish(429, NoBody, files, policy_tmp_path, demo_tmp_path)
    /\ log' = log \cup {IF pc \in {"returned", "raised"}
                         THEN "timed out" ELSE "timed out, analyze() running"}
    /\ UNCHANGED << policy_file, demographic_file, policy_tmp_path,
                    demo_tmp_path, demographics_text, agent >>

\* main.py 243-248: the wait of DEFAULT_TIMEOUT seconds expired first; the
\* thread is not stopped.  The log entry of line 244 records whether
\* analyze() was still running.
Timeout ==
    /\ hpc = "waiting"
    /\ Finish(504, NoBody, files, policy_tmp_path, demo_tmp_path)
    /\ log' = log \cup {IF pc \in {"returned", "raised"}
                         THEN "timed out" ELSE "timed out, analyze() running"}
    /\ UNCHANGED << policy_file, demographic_file, policy_tmp_path,
                    demo_tmp_path, demographics_text, agent >>

NextHttp ==
    \/ ReceivePolicyFile
    \/ ReceiveDemographicFile
    \/ CallAgent
    \/ GenerateContent
    \/ HandleApiError
    \/ ParseResponse
    \/ RulesStep
    \/ AnchoringStep
    \/ RegionsStep
    \/ ValidateAndReturn
    \/ HandleError
    \/ Respond
    \/ Timeout

SpecHttp == InitHttp /\ [][NextHttp]_vars

(***************************************************************************)
(* Vocabulary of the properties.                                           *)
(***************************************************************************)
HasDocument(text) == \E i \in 1..Len(text) : text[i].k = "json"

\* the JSON document a text carries
Document(text) == text[SetMin({i \in 1..Len(text) : text[i].k = "json"})].doc

\* analyze() has returned what the normalizer made of the model's document
Normalized == pc = "returned" /\ exit = "normalized"

\* the document is an object whose affected_groups is a list of objects
GroupsGiven ==
    /\ HasDocument(response)
    /\ Document(response)[1] = "obj"
    /\ Document(response)[2].affected_groups[1] = "list"

GroupsIn == Document(response)[2].affected_groups[2]

GroupsOut == returned[2].affected_groups[2]

SummaryGiven ==
    /\ HasDocument(response)
    /\ Document(response)[1] = "obj"
    /\ Document(response)[2].reasoning_summary[1] = "str"

SummaryIn == Document(response)[2].reasoning_summary[2]

SummaryOut == returned[2].reasoning_summary[2]

MinOf(a, b) == IF a <= b THEN a ELSE b

\* the three required keys hold a list, a list and a string
SchemaShaped(r) ==
    /\ r[1] = "obj"
    /\ r[2].affected_groups[1] = "list"
    /\ r[2].mitigations[1] = "list"
    /\ r[2].reasoning_summary[1] = "str"

(***************************************************************************)
(* C1.  Normalization is idempotent: whenever _post_process_normalize has  *)
(* succeeded on a parsed document, applying it to its own result succeeds  *)
(* and gives the same affected_groups, mitigations and reasoning_summary.  *)
(***************************************************************************)
C1_Idempotent ==
    pc = "renormalized" =>
        /\ again.ok
        /\ again.val[2].affected_groups = returned[2].affected_groups
        /\ again.val[2].mitigations = returned[2].mitigations
        /\ again.val[2].reasoning_summary = returned[2].reasoning_summary

(***************************************************************************)
(* C2.  analyze() never raises on a failure path: when the model call      *)
(* raised, the text was empty or no JSON, or the normalizer raised, every  *)
(* exception in flight is handled and the value returned holds             *)
(* affected_groups as a list, mitigations as a list and reasoning_summary  *)
(* as a string.                                                            *)
(***************************************************************************)
C2_FailurePathsReturnSchema ==
    /\ raised # NoExc => pc \in {"api_error", "failed"}
    /\ (pc = "api_error" /\ IsQuotaError(raised)
            /\ QuotaReturn(ErrorCombined(raised)).ok) =>
            SchemaShaped(QuotaReturn(ErrorCombined(raised)).val)
    /\ pc = "failed" =>
            /\ HandlerOutcome(raised).ok
            /\ SchemaShaped(HandlerResult(raised))
    /\ (pc = "returned" /\ exit \in {"quota", "empty", "handler"}) =>
            SchemaShaped(returned)

\* the normalizer raised on a document that is no object, and analyze()
\* returned all the same
C2_Witness ==
    /\ pc = "returned"
    /\ exit = "handler"
    /\ HasDocument(response)
    /\ Document(response)[1] # "obj"
    /\ ParseModelText(response).ok

(***************************************************************************)
(* C3.  For every model output that parses to a JSON object, whatever the  *)
(* JSON types of its values, the normalized result holds affected_groups   *)
(* as a list, mitigations as a list and reasoning_summary as a string.     *)
(***************************************************************************)
C3_NormalizedIsSchemaShaped ==
    Normalized => SchemaShaped(returned)

(***************************************************************************)
(* C4.  As claimed: in every result analyze() returns, normalized or       *)
(* synthesized, each affected group's risk_level is Low, Medium or High.   *)
(***************************************************************************)
RisksOf(r) ==
    IF r[2].affected_groups[1] = "list"
    THEN {r[2].affected_groups[2][i][2].risk_level :
            i \in 1..Len(r[2].affected_groups[2])}
    ELSE {}

RiskEnum == {Str(RISK_LEVELS[i]) : i \in 1..Len(RISK_LEVELS)}

C4_EveryResultRiskInEnum ==
    pc = "returned" => RisksOf(returned) \subseteq RiskEnum

(***************************************************************************)
(* C4, amended.  In every result analyze() returns by normalizing model    *)
(* output each affected group's risk_level is Low, Medium or High; the     *)
(* results it synthesizes for a quota, authentication, parse or generic    *)
(* failure carry one group whose risk_level is Unknown.                    *)
(***************************************************************************)
C4_NormalizedRiskInEnum ==
    /\ Normalized =>
            RisksOf(returned) \subseteq
                {Str(<< "L", "o", "w" >>), Str(<< "M", "e", "d", "i", "u", "m" >>),
                 Str(<< "H", "i", "g", "h" >>)}
    /\ (pc = "returned" /\ exit \in {"quota", "handler"}) =>
            RisksOf(returned) = {Str(S_Unknown)}

\* a group whose risk string is none of the recognised forms was normalized
C4_Witness ==
    /\ Normalized
    /\ GroupsGiven
    /\ Len(GroupsOut) > 0
    /\ GroupsIn[1][2].risk_level = Str(S_critical)

(***************************************************************************)
(* C5.  Risk mapping: a group's risk string, trimmed and case-folded, maps *)
(* low or l to Low, medium, med or m to Medium, high or h to High and      *)
(* every other string to Medium; a group without risk_level gets Medium.   *)
(* "l", "LOW" and "Low " give Low and "critical" gives Medium.             *)
(***************************************************************************)
Folded(s) == PyLower(PyStrip(s))

ClaimedRisk(risk) ==
    CASE risk[1] = "absent" -> << "M", "e", "d", "i", "u", "m" >>
      [] Folded(risk[2]) \in {<< "l", "o", "w" >>, << "l" >>} -> << "L", "o", "w" >>
      [] Folded(risk[2]) \in {<< "h", "i", "g", "h" >>, << "h" >>} ->
            << "H", "i", "g", "h" >>
      [] OTHER -> << "M", "e", "d", "i", "u", "m" >>

C5_RiskMapping ==
    /\ (Normalized /\ GroupsGiven) =>
            \A i \in 1..Len(GroupsOut) :
                GroupsOut[i][2].risk_level = Str(ClaimedRisk(GroupsIn[i][2].risk_level))
    /\ NormalizeRisk(<< "l" >>) = << "L", "o", "w" >>
    /\ NormalizeRisk(<< "L", "O", "W" >>) = << "L", "o", "w" >>
    /\ NormalizeRisk(<< "L", "o", "w", " " >>) = << "L", "o", "w" >>
    /\ NormalizeRisk(<< "c", "r", "i", "t", "i", "c", "a", "l" >>)
            = << "M", "e", "d", "i", "u", "m" >>

\* "Low " with its trailing blank was normalized to Low
C5_Witness ==
    /\ Normalized
    /\ GroupsGiven
    /\ Len(GroupsOut) > 0
    /\ GroupsIn[1][2].risk_level = Str(<< "L", "o", "w", " " >>)
    /\ GroupsOut[1][2].risk_level = Str(S_Low)

(***************************************************************************)
(* C6.  Truncation keeps a prefix: of n affected groups the result holds   *)
(* the first min(n, 3) in their order, of k mitigations the first          *)
(* min(k, 5) in their order.                                               *)
(***************************************************************************)
MitigationsGiven ==
    /\ HasDocument(response)
    /\ Document(response)[1] = "obj"
    /\ Document(response)[2].mitigations[1] = "list"

\* what the normalizer makes of a group that is the only one of its document
Alone(group) ==
    PostProcessNormalize(Obj(List(<< group >>), Absent, Absent)).val[2].affected_groups[2][1]

C6_TruncationKeepsPrefix ==
    /\ (Normalized /\ GroupsGiven) =>
            /\ Len(GroupsOut) = MinOf(Len(GroupsIn), 3)
            /\ \A i \in 1..Len(GroupsOut) : GroupsOut[i] = Alone(GroupsIn[i])
    /\ (Normalized /\ MitigationsGiven) =>
            returned[2].mitigations[2] =
                SubSeq(Document(response)[2].mitigations[2], 1,
                       MinOf(Len(Document(response)[2].mitigations[2]), 5))

\* seven groups and nine mitigations came back as three and five
C6_Witness ==
    /\ Normalized
    /\ GroupsGiven
    /\ MitigationsGiven
    /\ Len(GroupsIn) = 7
    /\ Len(Document(response)[2].mitigations[2]) = 9
    /\ Len(GroupsOut) = 3
    /\ Len(returned[2].mitigations[2]) = 5

(***************************************************************************)
(* C7.  Region canonicalization: each region string of a group is trimmed, *)
(* replaced by the alias table's region when it is a key of the table and  *)
(* title-cased otherwise; the group's region list then holds no name twice *)
(* and keeps the names in order of first occurrence.  Mumbai gives         *)
(* Maharashtra, bihar gives Bihar, and Bihar, bihar, Bihar give Bihar.     *)
(***************************************************************************)
\* group i of the document lists its regions, all of them strings
RegionsGiven(i) ==
    /\ GroupsIn[i][1] = "group"
    /\ GroupsIn[i][2].regions[1] = "list"
    /\ \A j \in 1..Len(GroupsIn[i][2].regions[2]) :
            GroupsIn[i][2].regions[2][j][1] = "str"

RegionsIn(i) == GroupsIn[i][2].regions[2]

RegionsOut(i) == GroupsOut[i][2].regions[2]

ClaimedRegion(region) ==
    LET trimmed == PyStrip(region)
    IN  IF trimmed \in Cities THEN cities_to_states(trimmed) ELSE PyTitle(trimmed)

FirstAt(q, x) == SetMin({i \in 1..Len(q) : q[i] = x})

C7_RegionCanonicalization ==
    (Normalized /\ GroupsGiven) =>
        \A i \in 1..Len(GroupsOut) :
            RegionsGiven(i) =>
                LET names == [j \in 1..Len(RegionsIn(i)) |->
                                Str(ClaimedRegion(RegionsIn(i)[j][2]))]
                    out   == RegionsOut(i)
                IN  /\ {out[j] : j \in 1..Len(out)} = {names[j] : j \in 1..Len(names)}
                    /\ \A j, k \in 1..Len(out) :
                            j < k => /\ out[j] # out[k]
                                     /\ FirstAt(names, out[j]) < FirstAt(names, out[k])
                    /\ RegionsIn(i) = << Str(<< "M", "u", "m", "b", "a", "i" >>) >> =>
                            out = << Str(<< "M", "a", "h", "a", "r", "a", "s", "h",
                                            "t", "r", "a" >>) >>
                    /\ RegionsIn(i) = << Str(<< "b", "i", "h", "a", "r" >>) >> =>
                            out = << Str(<< "B", "i", "h", "a", "r" >>) >>
                    /\ RegionsIn(i) = << Str(S_Bihar), Str(S_bihar), Str(S_Bihar) >> =>
                            out = << Str(<< "B", "i", "h", "a", "r" >>) >>

\* Bihar, bihar, Bihar came back as the single entry Bihar
C7_Witness ==
    /\ Normalized
    /\ GroupsGiven
    /\ Len(GroupsOut) = 1
    /\ RegionsGiven(1)
    /\ RegionsIn(1) = << Str(S_Bihar), Str(S_bihar), Str(S_Bihar) >>
    /\ RegionsOut(1) = << Str(S_Bihar) >>

(***************************************************************************)
(* C8.  As claimed: for any string summary the normalized summary has no   *)
(* leading or trailing whitespace, no newline, exactly one space between   *)
(* consecutive words, and its words are the first min(n, 35) words of the  *)
(* input, in order.                                                        *)
(***************************************************************************)
WordsIn == PySplit(SummaryIn)

WordsOut == PySplit(SummaryOut)

SingleSpaced(s) ==
    /\ s = PyJoin(PySplit(s))
    /\ \A i \in 1..Len(s) : s[i] # "\n"

LastIsPeriod(s) == Len(s) > 0 /\ s[Len(s)] = "."

\* the input has more than 35 words and the 35th does not end with a period
CutBeforePeriod ==
    /\ Len(WordsIn) > 35
    /\ ~LastIsPeriod(WordsIn[35])

C8_SummaryAsClaimed ==
    (Normalized /\ SummaryGiven) =>
        /\ SingleSpaced(SummaryOut)
        /\ WordsOut = SubSeq(WordsIn, 1, MinOf(Len(WordsIn), 35))

(***************************************************************************)
(* C8, amended.  For any string summary the normalized summary has no      *)
(* leading or trailing whitespace, no newline, exactly one space between   *)
(* consecutive words and at most 35 words, which are the first min(n, 35)  *)
(* words of the input in order, except that when the input has more than   *)
(* 35 words and its 35th word does not end with a period, a period is      *)
(* appended to that word; a 50-word summary becomes 35 words.              *)
(***************************************************************************)
C8_SummaryNormalized ==
    (Normalized /\ SummaryGiven) =>
        LET kept == SubSeq(WordsIn, 1, MinOf(Len(WordsIn), 35))
        IN  /\ SingleSpaced(SummaryOut)
            /\ Len(WordsOut) <= 35
            /\ Len(WordsIn) = 50 => Len(WordsOut) = 35
            /\ WordsOut = IF CutBeforePeriod
                          THEN [kept EXCEPT ![35] = Append(@, ".")]
                          ELSE kept

\* fifty words, two blanks between them and white space around them, came
\* back as thirty-five
C8_Witness ==
    /\ Normalized
    /\ SummaryGiven
    /\ Len(WordsIn) = 50
    /\ Contains(SummaryIn, << " ", " " >>)
    /\ SummaryIn[1] = " "
    /\ Len(WordsOut) = 35

(***************************************************************************)
(* C9.  As claimed: the normalized summary ends with a period whatever the *)
(* length of the input, and a missing summary becomes                      *)
(* "Analysis completed.".                                                  *)
(***************************************************************************)
SummaryMissing ==
    /\ HasDocument(response)
    /\ Document(response)[1] = "obj"
    /\ Document(response)[2].reasoning_summary[1] = "absent"

C9_AlwaysEndsWithPeriod ==
    /\ (Normalized /\ SummaryGiven) => LastIsPeriod(SummaryOut)
    /\ (Normalized /\ SummaryMissing) =>
            returned[2].reasoning_summary = Str(S_AnalysisCompleted)

(***************************************************************************)
(* C9, amended.  A period is appended only where the summary was           *)
(* truncated: a summary of more than 35 words ends with a period after     *)
(* normalization, one being appended to the 35 words kept unless they end  *)
(* with one; a summary of 35 words or fewer is returned single-spaced and  *)
(* trimmed with no period added; a missing summary becomes                 *)
(* "Analysis completed.".                                                  *)
(***************************************************************************)
C9_PeriodAfterTruncation ==
    /\ (Normalized /\ SummaryGiven) =>
            IF Len(WordsIn) > 35
            THEN LET cut == PyJoin(SubSeq(WordsIn, 1, 35))
                 IN  /\ LastIsPeriod(SummaryOut)
                     /\ SummaryOut = IF LastIsPeriod(cut) THEN cut ELSE Append(cut, ".")
            ELSE SummaryOut = PyJoin(WordsIn)
    /\ (Normalized /\ SummaryMissing) =>
            returned[2].reasoning_summary =
                Str(<< "A", "n", "a", "l", "y", "s", "i", "s", " ", "c", "o", "m",
                       "p", "l", "e", "t", "e", "d", "." >>)

\* thirty-six words without a period came back ending with one
C9_Witness ==
    /\ Normalized
    /\ SummaryGiven
    /\ Len(WordsIn) = 36
    /\ ~Contains(SummaryIn, << "." >>)
    /\ LastIsPeriod(SummaryOut)

(***************************************************************************)
(* C10.  As claimed: a JSON object wrapped in a leading and a trailing     *)
(* code fence, with or without the json tag and with or without line       *)
(* breaks between fence and JSON, is parsed to the value of the object     *)
(* alone, and analyze() returns for it what it returns for the object      *)
(* alone.                                                                  *)
(***************************************************************************)
DocAt(text) == SetMin({i \in 1..Len(text) : text[i].k = "json"})

\* a fence, the tag or not, white space or not, the object, white space or
\* not, a fence; white space around the whole
Wrapped(text) ==
    LET body == TextStrip(text)
    IN  /\ Len(body) >= 3
        /\ HasDocument(body)
        /\ Document(body)[1] = "obj"
        /\ body[1] = Fence
        /\ body[Len(body)] = Fence
        /\ \A i \in 2..(Len(body) - 1) :
                \/ i = DocAt(body)
                \/ IsWs(body[i])
                \/ i = 2 /\ body[i] = Tag

\* what analyze() returns for the object alone
BareResult(text) == PostProcessNormalize(Document(text))

ReturnedAsBare ==
    /\ exit = "normalized"
    /\ BareResult(response).ok
    /\ returned = BareResult(response).val

C10_AnyFenceParsesAsBare ==
    (pc = "returned" /\ Wrapped(response)) => ReturnedAsBare

(***************************************************************************)
(* C10, amended.  A JSON object wrapped in code fences is parsed to the    *)
(* value of the object alone, and analyze() returns for it what it returns *)
(* for the object alone, when the leading fence, with or without the json  *)
(* tag, is followed by white space that holds a line break and the         *)
(* trailing fence comes directly after a line break; when either line      *)
(* break is missing the text is not parsed and analyze() returns an error  *)
(* result.                                                                 *)
(***************************************************************************)
LineBroken(text) ==
    LET body == TextStrip(text)
        at   == DocAt(body)
    IN  /\ \E i \in 2..(at - 1) : body[i] = Nl
        /\ body[Len(body) - 1] = Nl

C10_LineBrokenFenceParsesAsBare ==
    /\ (pc = "rules" /\ Wrapped(response)) => result = Document(response)
    /\ (pc = "returned" /\ Wrapped(response)) =>
            IF LineBroken(response) THEN ReturnedAsBare ELSE exit = "handler"

\* a tagged fence on lines of its own was removed and the object normalized
C10_Witness ==
    /\ pc = "returned"
    /\ exit = "normalized"
    /\ Wrapped(response)
    /\ Len(response) = 6
    /\ response[2] = Tag
    /\ response[3] = Nl
    /\ response[5] = Nl

(***************************************************************************)
(* Vocabulary of the failure claims.                                       *)
(***************************************************************************)
\* the error_type a result carries (absent on results that have none)
ErrorTypeOf(r) == r[2].error_type

QuotaExceeded == ErrorTypeOf(QuotaReturn(<< >>).val)

AuthenticationError == ErrorTypeOf(AuthResult)

GenericError == ErrorTypeOf(GenericResult(<< >>))

\* analyze() has returned after the model's text failed to parse
ParseFailed ==
    /\ pc = "returned"
    /\ exit = "handler"
    /\ response # << >>
    /\ ~ParseModelText(response).ok

(***************************************************************************)
(* C11.  When the model's text is no JSON even after the fences are        *)
(* stripped, analyze() returns a degraded result whose error_type is the   *)
(* same for every such text, whatever the decoder's message says, and is   *)
(* never quota_exceeded nor authentication_error.                          *)
(***************************************************************************)
C11_ParseFailureHasOneCategory ==
    ParseFailed =>
        /\ ErrorTypeOf(returned) =
                ErrorTypeOf(HandlerResult(InvalidJsonError(<< Junk(0) >>)))
        /\ ErrorTypeOf(returned) # QuotaExceeded
        /\ ErrorTypeOf(returned) # AuthenticationError

\* a text whose decode error sits at offset 429 came back as a quota result
C11_Witness ==
    /\ ParseFailed
    /\ response = << Junk(429) >>
    /\ ErrorTypeOf(returned) = QuotaExceeded

(***************************************************************************)
(* C12.  The failure of the model call is classified by the first match of *)
(* quota, authentication, generic: a message or representation holding     *)
(* 429, resource_exhausted or quota in any letter case gives               *)
(* quota_exceeded, even beside an authentication token; one holding 401,   *)
(* 403, authentication or invalid api key and no quota token gives         *)
(* authentication_error; one holding neither gives generic_error.          *)
(***************************************************************************)
HasToken(e, tokens) ==
    \E token \in tokens :
        \/ Contains(PyLower(ErrStr(e)), token)
        \/ Contains(PyLower(ErrRepr(e)), token)

HasQuotaToken(e) ==
    HasToken(e, { << "4", "2", "9" >>,
                  << "r", "e", "s", "o", "u", "r", "c", "e", "_", "e", "x",
                     "h", "a", "u", "s", "t", "e", "d" >>,
                  << "q", "u", "o", "t", "a" >> })

HasAuthToken(e) ==
    HasToken(e, { << "4", "0", "1" >>, << "4", "0", "3" >>,
                  << "a", "u", "t", "h", "e", "n", "t", "i", "c", "a", "t",
                     "i", "o", "n" >>,
                  << "i", "n", "v", "a", "l", "i", "d", " ", "a", "p", "i",
                     " ", "k", "e", "y" >> })

\* analyze() has returned after the model call raised
GatewayFailed == pc = "returned" /\ gateway # NoExc

C12_FirstMatchClassification ==
    GatewayFailed =>
        ErrorTypeOf(returned) =
            IF HasQuotaToken(gateway) THEN QuotaExceeded
            ELSE IF HasAuthToken(gateway) THEN AuthenticationError
            ELSE GenericError

\* an error that holds a quota token came back as a generic error
C12_Witness ==
    /\ GatewayFailed
    /\ HasQuotaToken(gateway)
    /\ ErrorTypeOf(returned) = GenericError

(***************************************************************************)
(* C13.  For an error classified as a quota error the result has           *)
(* error_type quota_exceeded and its second mitigation reads "Retry after  *)
(* N seconds.", N being the integer part of the number in the first        *)
(* "retry in <number>s" of the error text ("12.5" gives 12), and 60 when   *)
(* the text holds no such pattern.                                         *)
(***************************************************************************)
\* the digits before the point of the number in the pattern, without
\* leading zeros; "60" when the text holds no pattern
ClaimedDelay(e) ==
    LET text == ErrorCombined(e)
        hits == {i \in 1..Len(text) : RetryMatchAt(text, i)}
        a == SetMin(hits) + Len(S_retry_in)
        whole == SubSeq(text, a, DigitsEnd(text, a) - 1)
        lead == SetMin({i \in 1..Len(whole) :
                            i = Len(whole) \/ whole[i] # "0"})
    IN  IF hits = {} THEN << "6", "0" >>
        ELSE SubSeq(whole, lead, Len(whole))

RetryAfter(digits) ==
    Str(<< "R", "e", "t", "r", "y", " ", "a", "f", "t", "e", "r", " " >>
        \o digits \o << " ", "s", "e", "c", "o", "n", "d", "s", "." >>)

\* analyze() has returned after the model call raised a quota error
QuotaClassified == GatewayFailed /\ IsQuotaError(gateway)

C13_RetryDelayIsIntegerPart ==
    QuotaClassified =>
        /\ ErrorTypeOf(returned) = QuotaExceeded
        /\ returned[2].mitigations[2][2] = RetryAfter(ClaimedDelay(gateway))

\* "retry in 0.99999999999999999999s" came back as "Retry after 1 seconds."
C13_Witness ==
    /\ QuotaClassified
    /\ ClaimedDelay(gateway) = << "0" >>
    /\ ErrorTypeOf(returned) = QuotaExceeded
    /\ returned[2].mitigations[2][2] = RetryAfter(<< "1" >>)

(***************************************************************************)
(* Vocabulary of the claims about POST /api/analyze.                       *)
(***************************************************************************)
\* the response has been sent and the handler has finished
Finished == hpc = "done"

\* the wait for analyze() expired
TimedOut == Finished /\ status = 504

\* analyze() returned its result to the handler, which answered it
Answered == Finished /\ pc = "returned" /\ status # 504

(***************************************************************************)
(* C14.  Whenever analyze() returns the quota result to the handler, the   *)
(* response of POST /api/analyze has status 429; no 200 response carries   *)
(* a result whose error_type is quota_exceeded.                            *)
(***************************************************************************)
C14_QuotaResultIs429 ==
    /\ (Answered /\ ErrorTypeOf(returned) = QuotaExceeded) => status = 429
    /\ (Finished /\ status = 200) =>
            /\ pc = "returned"
            /\ ErrorTypeOf(returned) # QuotaExceeded

\* a quota failure of the model call was answered with 429
C14_Witness ==
    /\ Answered
    /\ gateway # NoExc
    /\ ErrorTypeOf(returned) = QuotaExceeded
    /\ status = 429

(***************************************************************************)
(* C15.  When analyze() returns the result of an authentication failure or *)
(* of a generic failure and the response has status 200, the error field   *)
(* of the envelope is not null.                                            *)
(***************************************************************************)
C15_DegradedEnvelopeCarriesError ==
    (/\ Answered
     /\ status = 200
     /\ ErrorTypeOf(returned) \in {AuthenticationError, GenericError}) =>
        envelope.error # Null

\* an authentication failure was answered with 200 and a null error field
C15_Witness ==
    /\ Answered
    /\ status = 200
    /\ ErrorTypeOf(returned) = AuthenticationError
    /\ returned[2].is_error = Bool(TRUE)
    /\ envelope.error = Null

(***************************************************************************)
(* C16.  In every 200 response demographics_used is a boolean; it is true  *)
(* only when a demographic file was sent, load_demographics read it        *)
(* without an error and the text it gave holds no error or placeholder     *)
(* marker; it is false when only a policy file was sent.                   *)
(***************************************************************************)
HoldsMarker(text) ==
    \/ Contains(text, << "E", "r", "r", "o", "r", " ", "l", "o", "a", "d",
                         "i", "n", "g" >>)
    \/ Contains(text, << "N", "o", " ", "d", "e", "m", "o", "g", "r", "a",
                         "p", "h", "i", "c" >>)

C16_DemographicsUsedIsBoolean ==
    (Finished /\ status = 200) =>
        /\ envelope.demographics_used[1] = "bool"
        /\ envelope.demographics_used = Bool(TRUE) =>
                /\ demographic_file.given
                /\ "load_demographics" \in log
                /\ demographic_file.readable
                /\ ~HoldsMarker(demographics_text)
        /\ ~demographic_file.given =>
                envelope.demographics_used = Bool(FALSE)

\* a request with a policy file alone was answered with 200 and null
C16_Witness ==
    /\ Finished
    /\ status = 200
    /\ ~demographic_file.given
    /\ envelope.demographics_used = Null

(***************************************************************************)
(* C17.  Every upload is validated before it is processed.  A policy file  *)
(* with no name, with an extension other than .pdf or larger than 10 MiB   *)
(* is answered with 400 and extract_policy_text is never called; a         *)
(* demographic file that was sent with an extension other than .csv,       *)
(* .xlsx, .xls or larger than 10 MiB is answered with 400 and              *)
(* load_demographics is never called; in both cases the model is never     *)
(* called.                                                                 *)
(***************************************************************************)
\* the extension of a file name in lower case, from its last point on
Extension(filename) ==
    LET points == {i \in 1..Len(filename) : filename[i] = "."}
    IN  IF points = {} THEN << >>
        ELSE PyLower(SubSeq(filename, SetMax(points), Len(filename)))

PolicyFileInvalid ==
    \/ policy_file.filename = << >>
    \/ Extension(policy_file.filename) # << ".", "p", "d", "f" >>
    \/ policy_file.size > 10 * 1024 * 1024

DemographicFileInvalid ==
    /\ demographic_file.given
    /\ demographic_file.filename # << >>
    /\ \/ Extension(demographic_file.filename) \notin
            { << ".", "c", "s", "v" >>, << ".", "x", "l", "s", "x" >>,
              << ".", "x", "l", "s" >> }
       \/ demographic_file.size > 10 * 1024 * 1024

C17_ValidatedBeforeProcessed ==
    /\ PolicyFileInvalid =>
            /\ log = {}
            /\ calls = 0
            /\ pc = "idle"
            /\ Finished => status = 400
    /\ DemographicFileInvalid =>
            /\ "load_demographics" \notin log
            /\ calls = 0
            /\ pc = "idle"
            /\ (Finished /\ policy_tmp_path # "") => status = 400
    /\ "extract_policy_text" \in log =>
            /\ validate_file_size(policy_file.size, MAX_FILE_SIZE)
            /\ ~PolicyFileInvalid
    /\ "load_demographics" \in log => ~DemographicFileInvalid

\* a demographic file with a wrong extension was refused after the policy
\* file had been read, and was never summarized
C17_Witness ==
    /\ Finished
    /\ status = 400
    /\ DemographicFileInvalid
    /\ ~PolicyFileInvalid
    /\ log = {"extract_policy_text"}
    /\ calls = 0

(***************************************************************************)
(* C18.  On every path out of the handler (success, refused upload,        *)
(* failed extraction, 429, timeout, unexpected exception, a failure while  *)
(* a temporary file is being written) every temporary file made for the    *)
(* request has been deleted when the handler has finished.                 *)
(***************************************************************************)
C18_NoTemporaryFileOutlivesRequest ==
    Finished => files = {}

\* the write of the policy file failed: the response is 500 and the file
\* made at line 170 is still there
C18_Witness ==
    /\ Finished
    /\ status = 500
    /\ policy_tmp_path = ""
    /\ files = {"policy.tmp"}

C20_AtMostOneModelCall ==
    /\ calls <= 1
    /\ pc \in {"idle", "start"} <=> calls = 0
    /\ (Finished /\ status = 400) => calls = 0
    /\ (PolicyFileInvalid \/ DemographicFileInvalid) => calls = 0
    /\ hpc \in {"start", "policy_read", "ready"} => calls = 0

\* the model call failed with an authentication error; analyze() returned
\* and was answered after that one call
C20_Witness ==
    /\ Answered
    /\ gateway # NoExc
    /\ ErrorTypeOf(returned) = AuthenticationError
    /\ calls = 1

(***************************************************************************)
(* C21.  No group of a normalized result lists a city of the alias table   *)
(* as a region: for every input region string that names a city the table  *)
(* maps to a different name, in any letter case and with any whitespace    *)
(* around it, the output regions hold the mapped name and not the city.    *)
(***************************************************************************)
\* the cities the table maps to another name that the region string names
CitiesNamed(region) ==
    {i \in 1..Len(region_mapping) :
        /\ region_mapping[i][1] # region_mapping[i][2]
        /\ PyLower(PyStrip(region)) = PyLower(region_mapping[i][1])}

C21_NoCityInOutput ==
    (Normalized /\ GroupsGiven) =>
        \A i \in 1..Len(GroupsOut) :
            RegionsGiven(i) =>
                \A j \in 1..Len(RegionsIn(i)) :
                    \A c \in CitiesNamed(RegionsIn(i)[j][2]) :
                        LET out == {RegionsOut(i)[k] : k \in 1..Len(RegionsOut(i))}
                        IN  /\ Str(region_mapping[c][2]) \in out
                            /\ Str(region_mapping[c][1]) \notin out

\* the region mumbai came back as the city Mumbai
C21_Witness ==
    /\ Normalized
    /\ GroupsGiven
    /\ Len(GroupsOut) = 1
    /\ RegionsGiven(1)
    /\ RegionsIn(1) = << Str(S_mumbai) >>
    /\ RegionsOut(1) = << Str(S_Mumbai) >>

(***************************************************************************)
(* C22.  The response has status 429 only when the model call failed with  *)
(* an error classified quota_exceeded: a request whose model output was    *)
(* parsed and normalized is never answered with 429, whatever its          *)
(* reasoning summary says.                                                 *)
(***************************************************************************)
C22_429OnlyForQuotaFailure ==
    (Finished /\ status = 429) =>
        /\ exit # "normalized"
        /\ gateway # NoExc
        /\ ErrorTypeOf(returned) = QuotaExceeded

\* a document that was parsed and normalized, whose summary speaks of
\* quotas, was answered with 429
C22_Witness ==
    /\ Finished
    /\ status = 429
    /\ Normalized
    /\ gateway = NoExc
    /\ ErrorTypeOf(returned) # QuotaExceeded
    /\ Contains(PyLower(SummaryOut), << "q", "u", "o", "t", "a" >>)

(***************************************************************************)
(* C23.  The groups after the first three do not influence the outcome:    *)
(* two model outputs that differ only in the entries of affected_groups at *)
(* positions four and later, well-formed or not, make analyze() return the *)
(* same result.                                                            *)
(***************************************************************************)
\* what analyze() returns for a parsed document (agent.py 441-445, 463-522)
AnalyzeDocument(document) ==
    LET done == PostProcessNormalize(document)
    IN  IF done.ok THEN done.val
        ELSE HandlerResult(NormalizerExc(done.exc))

\* the document with its entries after the third replaced by tail
WithTail(document, tail) ==
    [document EXCEPT ![2].affected_groups =
        List(SubSeq(@[2], 1, MAX_AFFECTED_GROUPS) \o tail)]

\* analyze() has returned for a document of at least three groups
ThreeGroupsAnswered ==
    /\ pc = "returned"
    /\ exit \in {"normalized", "handler"}
    /\ GroupsGiven
    /\ ParseModelText(response).ok
    /\ Len(GroupsIn) >= MAX_AFFECTED_GROUPS

C23_LaterGroupsHaveNoInfluence ==
    ThreeGroupsAnswered =>
        \A tail \in GroupTails :
            AnalyzeDocument(WithTail(ParseModelText(response).val, tail)) = returned

\* a fourth entry that is no object made analyze() return a generic error
\* where the same document without it gives a normalized result
C23_Witness ==
    /\ ThreeGroupsAnswered
    /\ exit = "handler"
    /\ Len(GroupsIn) = MAX_AFFECTED_GROUPS + 1
    /\ GroupsIn[MAX_AFFECTED_GROUPS + 1] = Null
    /\ ErrorTypeOf(returned) = GenericError
    /\ PostProcessNormalize(WithTail(ParseModelText(response).val, << >>)).ok

(***************************************************************************)
(* C24.  When no column name of the dataset matches any keyword of the    *)
(* taxonomy, generate_demographic_summary returns the fallback line that   *)
(* says no key indicators were identified.                                 *)
(***************************************************************************)
\* the keywords the blocks of generate_demographic_summary look for
TaxonomyKeywords ==
    { << "p", "o", "p", "u", "l", "a", "t", "i", "o", "n" >>,
      << "p", "o", "p" >>,
      << "r", "u", "r", "a", "l" >>,
      << "u", "r", "b", "a", "n" >>,
      << "i", "n", "c", "o", "m", "e" >>,
      << "w", "a", "g", "e" >>,
      << "s", "a", "l", "a", "r", "y" >>,
      << "e", "d", "u", "c", "a", "t", "i", "o", "n" >>,
      << "l", "i", "t", "e", "r", "a", "c", "y" >>,
      << "l", "i", "t", "e", "r", "a", "t", "e" >>,
      << "r", "e", "g", "i", "o", "n" >>,
      << "s", "t", "a", "t", "e" >>,
      << "d", "i", "s", "t", "r", "i", "c", "t" >>,
      << "a", "r", "e", "a" >>,
      << "l", "o", "c", "a", "t", "i", "o", "n" >>,
      << "u", "n", "e", "m", "p", "l", "o", "y", "m", "e", "n", "t" >>,
      << "p", "o", "v", "e", "r", "t", "y" >>,
      << "v", "u", "l", "n", "e", "r", "a", "b", "l", "e" >>,
      << "d", "i", "s", "a", "b", "i", "l", "i", "t", "y" >>,
      << "e", "l", "d", "e", "r", "l", "y" >>,
      << "c", "h", "i", "l", "d", "r", "e", "n" >>,
      << "i", "n", "t", "e", "r", "n", "e", "t" >>,
      << "d", "i", "g", "i", "t", "a", "l" >>,
      << "t", "e", "c", "h", "n", "o", "l", "o", "g", "y" >>,
      << "m", "o", "b", "i", "l", "e" >>,
      << "s", "m", "a", "r", "t", "p", "h", "o", "n", "e" >>,
      << "e", "m", "p", "l", "o", "y", "m", "e", "n", "t" >>,
      << "e", "m", "p", "l", "o", "y", "e", "d" >>,
      << "j", "o", "b" >> }

NoIndicatorColumn(file) ==
    \A keyword \in TaxonomyKeywords : ~Contains(PyLower(file.columns), keyword)

NoKeyIndicators ==
    << "D", "e", "m", "o", "g", "r", "a", "p", "h", "i", "c", " ", "d", "a",
       "t", "a", " ", "l", "o", "a", "d", "e", "d", " ", "b", "u", "t", " ",
       "n", "o", " ", "k", "e", "y", " ", "i", "n", "d", "i", "c", "a", "t",
       "o", "r", "s", " ", "i", "d", "e", "n", "t", "i", "f", "i", "e", "d",
       "." >>

DemographicContext ==
    << "D", "e", "m", "o", "g", "r", "a", "p", "h", "i", "c", " ", "C", "o",
       "n", "t", "e", "x", "t", ":", "\n" >>

AvailableColumns ==
    << "\n", "\n", "A", "v", "a", "i", "l", "a", "b", "l", "e", " ", "d",
       "a", "t", "a", " ", "c", "o", "l", "u", "m", "n", "s", ":", " " >> \o demographic_file.columns

\* the request holds the text load_demographics built around the summary
SummaryLoaded ==
    /\ "load_demographics" \in log
    /\ Len(demographics_text) >= Len(DemographicContext) + Len(AvailableColumns)
    /\ SubSeq(demographics_text, 1, Len(DemographicContext)) = DemographicContext

\* what generate_demographic_summary returned: the text between the heading
\* and the list of columns
SummaryReturned ==
    SubSeq(demographics_text, Len(DemographicContext) + 1,
           Len(demographics_text) - Len(AvailableColumns))

C24_FallbackWithoutIndicators ==
    (SummaryLoaded /\ NoIndicatorColumn(demographic_file)) =>
        SummaryReturned = NoKeyIndicators

\* a table of three records with the columns id and ward was summarized by
\* its record count alone
C24_Witness ==
    /\ SummaryLoaded
    /\ NoIndicatorColumn(demographic_file)
    /\ demographic_file.rows = 3
    /\ SummaryReturned =
         << "T", "o", "t", "a", "l", " ", "r", "e", "c", "o", "r", "d", "s",
            ":", " ", "3" >>
    /\ ~Contains(demographics_text, NoKeyIndicators)

=============================================================================
